---- MODULE Spec2Model ----
(***************************************************************************)
(* Model of the kcrypt partition encryption orchestrator of kairos-sdk:    *)
(* the encryptor selector (GetEncryptor), and the Encrypt / Unlock state   *)
(* machines of the three strategies (Remote KMS, TPM with PCR policy,      *)
(* Local TPM NV passphrase) of kcrypt/encryptor.go and kcrypt/lock.go.     *)
(*                                                                         *)
(* Strings that the code parses are sequences of one-character strings;    *)
(* device paths are sequences of path components; Go errors are chains     *)
(* (sequences) of [msg, arg] records, the empty chain being nil, and       *)
(* fmt.Errorf("...: %w", err) prepends one record to the wrapped chain.    *)
(***************************************************************************)
EXTENDS Integers, Sequences, FiniteSets, TLC

VARIABLES
    \* ---- selector (GetEncryptor) ----
    kcryptConfig,   \* result of ScanKcryptConfig: nil or a KcryptConfig
    isUKI,          \* result of detectUKIMode
    systemctl,      \* [out, err] of `systemctl --version | head -1 | awk ...`
    tpmrm0,         \* TRUE iff /dev/tpmrm0 exists
    selPc,          \* position inside GetEncryptor
    encryptor,      \* the local variable `encryptor` of GetEncryptor
    selRet,         \* what GetEncryptor returned: [enc, err]
    \* ---- one Encrypt(partitions) or Unlock(partitions) call ----
    op,             \* "Encrypt" or "Unlock"
    e,              \* the receiver: [name, kcryptConfig]
    partitions,     \* the labels given by the caller
    idx,            \* position of the `for ... range partitions` loop (1-based)
    pc,             \* position inside the per-label function
    status,         \* "running", "returned" or "exited" (os.Exit)
    ret,            \* error returned by Encrypt / Unlock (NoErr is nil)
    results,        \* [label, err] returned by unlockPartition / luksify so far
    attempt,        \* loop variable of unlockPartition
    lastErr,        \* lastErr of unlockPartition
    info,           \* the resolved partitionInfo
    pass,           \* passphrase in hand
    checkPath,      \* output of the visibility `blkid -L`
    luksified,      \* string returned by luksify for the label handled last
    \* ---- the host ----
    mappers,        \* names n for which /dev/mapper/n exists
    dev,            \* partition name -> state of the block device
    nv,             \* blob stored at the TPM NV index
    \* ---- observation of the call (history) ----
    ran,            \* external commands run in the current attempt / label
    fault,          \* step of the current attempt that failed, "" if none
    errAt,          \* attempt in which lastErr was last recorded, -1 if never
    done,           \* steps of Encrypt completed for the current label
    host0,          \* the host when the call was made: [mappers, dev, nv]
    tpmArgs,        \* arguments of the last getOrCreateLocalTPMPassphrase call
    \* ---- ghw.GetDisks ----
    tree,           \* what can be read below /sys/block, /run/udev/data, /proc/mounts
    enumPc,         \* "idle", "start" or "done"
    enumerated,     \* what GetDisks returned: [isNil, disks]
    \* ---- findPartitionByLabel against one enumeration ----
    listing,        \* the enumeration: partition records, disk by disk
    blkid,          \* what `blkid -L <label>` gives: [out, err]
    target,         \* position in the flattened listing of the record resolved
    found,          \* what findPartitionByLabel returned: [info, err]
    inList,         \* what findPartition of lock.go returned: [info, err]
    findPc,         \* "idle", "start" or "done"
    \* ---- UnlockAllEncryptedPartitions ----
    devMapper,      \* names n for which /dev/mapper/n exists on that host
    unlockRun,      \* the error encryptor.Unlock gives when it is called
    uaPc,           \* "idle", "encryptor", "scan", "unlock" or "returned"
    uaLabels,       \* [isNil, labels] of findEncryptedPartitions, then the Unlock argument
    uaCalled,       \* whether encryptor.Unlock was called
    uaRet,          \* error returned by UnlockAllEncryptedPartitions
    \* ---- collector.DeepMerge(a, b) ----
    mergeA,         \* the argument a
    mergeB,         \* the argument b
    mergeOrder,     \* order in which `range b` visits the keys, per nesting depth
    mergePc,        \* "idle", "call" or "done"
    mergeRet,       \* what DeepMerge returned: [val, err, panic]
    \* ---- collector.Configs.Merge ----
    configs,        \* the receiver cs: the configs of the sources, in order
    web,            \* url -> [up, doc]: what an HTTP GET of the url can give
    csIdx,          \* position of the `for _, c := range cs` loop (1-based)
    frames,         \* configs in hand of the nested MergeConfigURL calls
    attempts,       \* failed attempts of the running fetchRemoteConfig
    scanPc,         \* position inside Configs.Merge
    result,         \* the local variable `result` of Configs.Merge
    scanErr,        \* error returned by Configs.Merge
    fetched,        \* urls given to fetchRemoteConfig so far (history)
    \* ---- two GetOrCreateLocalTPMPassphrase calls in a row ----
    tpmParams,      \* the arguments: [nvIndex, cIndex, tpmDevice]
    tpmFaults,      \* library calls that fail on this host, and the random seed
    tpmPc,          \* position inside GetOrCreateLocalTPMPassphrase
    tpmCall,        \* 1 or 2: the call that is running
    nvram,          \* the blobs stored in NV memory: set of [device, index, blob]
    tpmBlob,        \* the local variable encodedPass / blob, and rand
    tpmLog,         \* the library calls made so far, with their options
    tpmRets,        \* what the calls returned so far: [pass, err]
    \* ---- ScanKcryptConfig and the choice made from its result ----
    fileValues,     \* the values of the YAML sources, in order
    cmdline,        \* the tokens of the kernel command line: [key, value]
    exVersion,      \* which extractKcryptConfigFromCollector of config.go is built
    exUKI,          \* result of detectUKIMode
    exPc,           \* "idle", "scan", "extract", "select" or "done"
    collected,      \* what collector.Scan returned: [c, err, panic]
    extracted,      \* what ScanKcryptConfig returned
    chosen,         \* the strategy chosen and what it derives from the config
    \* ---- luksUnlock, step by step ----
    luVersion,      \* which luksUnlock is built: 1 settles after a failure, 2 before a retry
    luArgs,         \* the arguments: [device, mapper, password, logger]
    luHost,         \* the host: [device, mapper, key]
    luPc,           \* position inside luksUnlock
    luAttempt,      \* the loop variable attempt
    luUnlockErr,    \* the local variable unlockErr
    luTrace,        \* what luksUnlock did to the host so far: sequence of [step, ok]
    luRet,          \* the error luksUnlock returned
    logRecords,     \* the log records written so far
    passUsed,       \* the passphrases handed to cryptsetup, systemd-cryptenroll or the LUKS library
    \* ---- one partition through Encrypt or Unlock of a strategy ----
    psIn,           \* [op, name, label, config]: the operation, the strategy, the partition
    psPc,           \* position inside luksify / unlockPartition / getPasswordFromChallenger
    psAttempt,      \* the loop variable attempt of unlockPartition
    psResp,         \* the response of the plugin, once published
    psHandled,      \* the response handlers that have run
    psPassword,     \* the named result password of getPasswordFromChallenger
    psErr,          \* the named result err of getPasswordFromChallenger
    psLastErr,      \* the local variable lastErr of unlockPartition
    psPass,         \* the passphrase the strategy holds
    psRet,          \* [how, err]: how the operation ended
    \* ---- formatLuks and waitDevice, step by step ----
    fmPc,           \* position inside formatLuks
    fmTries,        \* the loop variable tries of waitDevice
    fmTrace,        \* the steps of formatLuks so far: sequence of [step, ok]
    fmRet,           \* the error formatLuks returned
    \* ---- unmountIfMounted and createLuks on a mount table ----
    mtDev,          \* the device handed to unmountIfMounted and createLuks: [path, names]
    mtTable,        \* the lines of /proc/mounts, oldest mount first
    mtPc,           \* position inside the encrypt of the label
    mtRet,          \* the error returned
    mtCreated,      \* the mount table createLuks ran on, once it has run
    \* ---- SpecBus: the process-wide plugin bus ----
    buses,          \* every *Bus made so far: [registered, loaded, plugins, handlers]
    Manager,        \* bus.Manager, the index in buses of the process-wide bus
    providerDir,    \* the plugin executables below the extension paths
    invoked,        \* the handlers the last Publish invoked
    busLast,        \* the last operation on the bus
    busReloads,     \* the calls of bus.Reload so far
    busOps,         \* the operations so far
    \* ---- SpecFiles: parseFiles of the config collector ----
    pfFiles,        \* the files below the scanned directories: [name, size, ext, readable, header]
    pfPc,           \* where parseFiles is
    pfResult,       \* the Configs parseFiles returns, by their Sources
    \* ---- SpecNames: the mapper names of one encrypt or unlock ----
    nmIn,           \* the call, [op, strategy, label, blk, scan], blk and scan being what blkid and ghw report
    nmInfo,         \* the partitionInfo that was found
    nmMappers,      \* the nodes below /dev/mapper, each [name, kind]
    nmOpened,       \* the name the volume was opened under
    nmTrace,        \* the mapper names the steps used, each [step, name]
    nmPc,           \* where the call is
    nmRet           \* the error the call returns

selVars == <<kcryptConfig, isUKI, systemctl, tpmrm0, selPc, encryptor, selRet>>

callVars == <<op, e, partitions, idx, pc, status, ret, results, attempt, lastErr,
              info, pass, checkPath, luksified>>

hostVars == <<mappers, dev, nv>>

obsVars == <<ran, fault, errAt, done, host0, tpmArgs>>

opsVars == <<callVars, hostVars, obsVars>>

ghwVars == <<tree, enumPc, enumerated>>

findVars == <<listing, blkid, target, found, inList, findPc>>

uaVars == <<devMapper, unlockRun, uaPc, uaLabels, uaCalled, uaRet>>

mergeVars == <<mergeA, mergeB, mergeOrder, mergePc, mergeRet>>

scanVars == <<configs, web, csIdx, frames, attempts, scanPc, result, scanErr, fetched>>

tpmVars == <<tpmParams, tpmFaults, tpmPc, tpmCall, nvram, tpmBlob, tpmLog, tpmRets>>

exVars == <<fileValues, cmdline, exVersion, exUKI, exPc, collected, extracted, chosen>>

luksVars == <<luVersion, luArgs, luHost, luPc, luAttempt, luUnlockErr, luTrace, luRet, logRecords, passUsed>>

passVars == <<psIn, psPc, psAttempt, psResp, psHandled, psPassword, psErr, psLastErr, psPass, psRet>>

fmtVars == <<fmPc, fmTries, fmTrace, fmRet>>

mntVars == <<mtDev, mtTable, mtPc, mtRet, mtCreated>>

busVars == <<buses, Manager, providerDir, invoked, busLast, busReloads, busOps>>

pfVars == <<pfFiles, pfPc, pfResult>>

nmVars == <<nmIn, nmInfo, nmMappers, nmOpened, nmTrace, nmPc, nmRet>>

lateVars == <<fmtVars, mntVars, busVars, pfVars, nmVars>>

pathVars == <<luksVars, passVars, lateVars>>

cfgVars == <<mergeVars, scanVars, tpmVars, exVars, pathVars>>

enumVars == <<ghwVars, findVars, uaVars, cfgVars>>

vars == <<selVars, opsVars, enumVars>>

Nil == "nil"
NoErr == << >>

\* fmt.Errorf(msg + ": %w", err) and fmt.Errorf(msg)
Errorf(msg, arg, err) == <<[msg |-> msg, arg |-> arg]>> \o err
NewErr(msg) == <<[msg |-> msg, arg |-> ""]>>

RemoteKMS == "Remote KMS"
TPMWithPCR == "TPM with PCR policy"
LocalTPMNV == "Local TPM NV passphrase"
Strategies == {RemoteKMS, TPMWithPCR, LocalTPMNV}

\* a *bus.KcryptConfig: the nil pointer, or a struct
NilConfig ==
    [isNil |-> TRUE, ChallengerServer |-> "", MDNS |-> FALSE,
     NVIndex |-> "", CIndex |-> "", TPMDevice |-> ""]

KcryptConfigs ==
    {NilConfig} \cup
    [isNil : {FALSE}, ChallengerServer : {"", "kms.local"}, MDNS : BOOLEAN,
     NVIndex : {""}, CIndex : {""}, TPMDevice : {""}]

(***************************************************************************)
(* Bounds of the model.                                                    *)
(***************************************************************************)
MaxVersionLen == 4

(***************************************************************************)
(* String helpers: strings.TrimSpace, regexp `\d+` FindString, Atoi.       *)
(***************************************************************************)
Digits == {"0", "1", "2", "3", "4", "5", "6", "7", "8", "9"}
Spaces == {" ", "\n"}

DigitVal(c) ==
    CASE c = "0" -> 0 [] c = "1" -> 1 [] c = "2" -> 2 [] c = "3" -> 3
      [] c = "4" -> 4 [] c = "5" -> 5 [] c = "6" -> 6 [] c = "7" -> 7
      [] c = "8" -> 8 [] c = "9" -> 9

TrimSpace(s) ==
    LET ns == {i \in 1..Len(s) : s[i] \notin Spaces}
    IN  IF ns = {} THEN << >>
        ELSE LET lo == CHOOSE i \in ns : \A j \in ns : i <= j
                 hi == CHOOSE i \in ns : \A j \in ns : i >= j
             IN  SubSeq(s, lo, hi)

\* regexp.MustCompile(`\d+`).FindString: the leftmost, longest run of digits
FindDigits(s) ==
    LET ds == {i \in 1..Len(s) : s[i] \in Digits}
    IN  IF ds = {} THEN << >>
        ELSE LET lo == CHOOSE i \in ds : \A j \in ds : i <= j
                 ends == {k \in lo..Len(s) : \A j \in lo..k : s[j] \in Digits}
                 hi == CHOOSE k \in ends : \A j \in ends : k >= j
             IN  SubSeq(s, lo, hi)

RECURSIVE Atoi(_)
Atoi(ds) ==
    IF Len(ds) = 0 THEN 0
    ELSE 10 * Atoi(SubSeq(ds, 1, Len(ds) - 1)) + DigitVal(ds[Len(ds)])

(***************************************************************************)
(* Validate() of the three strategies.                                     *)
(***************************************************************************)
MinSystemdVersion == 252

\* variant: the minimum version itself is rejected
validateSystemdVersion_Strict(run, minVersion) ==
    LET systemdVersion == TrimSpace(run.out)
        matches == FindDigits(systemdVersion)
    IN  IF run.err THEN Errorf("could not get systemd version", "", NewErr("exit status"))
        ELSE IF systemdVersion = << >> THEN NewErr("could not get systemd version: empty output")
        ELSE IF matches = << >> THEN NewErr("could not extract numeric part from systemd version")
        ELSE IF Atoi(matches) <= minVersion THEN NewErr("systemd version is too old")
        ELSE NoErr

validateSystemdVersion(run, minVersion) ==
    LET systemdVersion == TrimSpace(run.out)
        matches == FindDigits(systemdVersion)
    IN  IF run.err THEN Errorf("could not get systemd version", "", NewErr("exit status"))
        ELSE IF systemdVersion = << >> THEN NewErr("could not get systemd version: empty output")
        ELSE IF matches = << >> THEN NewErr("could not extract numeric part from systemd version")
        ELSE IF Atoi(matches) < minVersion THEN NewErr("systemd version is too old")
        ELSE NoErr

validateTPMDevice(exists) ==
    IF ~exists THEN Errorf("could not find TPM 2.0 device at /dev/tpmrm0", "", NewErr("stat"))
    ELSE NoErr

Validate(enc, run, tpm) ==
    CASE enc = RemoteKMS -> NoErr
      [] enc = TPMWithPCR ->
            IF validateSystemdVersion(run, MinSystemdVersion) # NoErr
            THEN validateSystemdVersion(run, MinSystemdVersion)
            ELSE validateTPMDevice(tpm)
      [] enc = LocalTPMNV -> validateTPMDevice(tpm)

(***************************************************************************)
(* Paths, passphrases and the host the calls run on.                       *)
(***************************************************************************)
\* filepath.Join("/dev", n) and filepath.Join("/dev", "mapper", n)
DevPath(n) == <<"/", "dev", "/", n>>
MapperPathOf(n) == <<"/", "dev", "/", "mapper", "/", n>>

\* filepath.Base: the element after the last separator
Base(path) ==
    LET seps == {i \in 1..Len(path) : path[i] = "/"}
    IN  IF path = << >> THEN "."
        ELSE IF seps = {} THEN path[1]
        ELSE LET last == CHOOSE i \in seps : \A j \in seps : i >= j
             IN  IF last = Len(path) THEN "/" ELSE path[last + 1]

\* the partitions ghw reports, disk by disk
HostDisks ==
    << << [Name |-> "sda1", FilesystemLabel |-> "COS_OEM", UUID |-> "uuid-a"] >>,
       << [Name |-> "sdb1", FilesystemLabel |-> "COS_PERSISTENT", UUID |-> "uuid-b"] >> >>

NilPartition == [Name |-> "", FilesystemLabel |-> "", UUID |-> ""]

RECURSIVE Flatten(_)
Flatten(disks) ==
    IF disks = << >> THEN << >> ELSE Head(disks) \o Flatten(Tail(disks))

PartNames == {p.Name : p \in {Flatten(HostDisks)[i] : i \in 1..Len(Flatten(HostDisks))}}
Labels == {"COS_OEM", "COS_PERSISTENT"}

NameOfLabel(label) ==
    LET ps == Flatten(HostDisks)
        hit == {i \in 1..Len(ps) : ps[i].FilesystemLabel = label}
    IN  IF hit = {} THEN "" ELSE ps[CHOOSE i \in hit : \A j \in hit : i <= j].Name

\* charset of getRandomString / utils.RandomString
Charset ==
    << "a", "b", "c", "d", "e", "f", "g", "h", "i", "j", "k", "l", "m",
       "n", "o", "p", "q", "r", "s", "t", "u", "v", "w", "x", "y", "z",
       "A", "B", "C", "D", "E", "F", "G", "H", "I", "J", "K", "L", "M",
       "N", "O", "P", "Q", "R", "S", "T", "U", "V", "W", "X", "Y", "Z",
       "0", "1", "2", "3", "4", "5", "6", "7", "8", "9" >>

RandomPassLen == 32

\* the random source: the i-th draw of seededRand.Intn(len(charset))
Seeds == {3, 11}
Intn(seed, i, n) == (seed * i + 7) % n

getRandomString(length, seed) ==
    [i \in 1..length |-> Charset[Intn(seed, i, Len(Charset)) + 1]]

NoPass == << >>
PluginKey == <<"k", "m", "s">>
OtherKey == <<"b", "a", "d">>

\* what the TPM helper library stores: the sealed passphrase
NoBlob == [present |-> FALSE, sealed |-> NoPass]
EncryptBlob(p) == [present |-> TRUE, sealed |-> p]
DecryptBlob(blob) == blob.sealed

\* no call of the TPM passphrase store was made
NoTPMArgs == [nvIndex |-> "", cIndex |-> "", tpmDevice |-> ""]

\* a block device: plain or a LUKS2 container with keyslots
\* (pwslot: the password keyslot holds `key`; tpm2: the public-key PCRs of
\* the enrolled TPM2 policy, empty if none; fs: label of the inner filesystem)
PlainDevice(m) ==
    [mounted |-> m, luks |-> FALSE, pwslot |-> FALSE, key |-> NoPass, tpm2 |-> << >>, fs |-> ""]
LuksDevice(k, t, l) ==
    [mounted |-> FALSE, luks |-> TRUE, pwslot |-> TRUE, key |-> k, tpm2 |-> t, fs |-> l]

NilInfo == [isNil |-> TRUE, DevicePath |-> << >>, PartitionName |-> "", Partition |-> NilPartition]

\* the calls are not running (used by the selector specification)
OpsIdle ==
    /\ op = "none"
    /\ e = [name |-> Nil, kcryptConfig |-> NilConfig, bindPublicPCRs |-> << >>]
    /\ partitions = << >>
    /\ idx = 0
    /\ pc = "idle"
    /\ status = "idle"
    /\ ret = NoErr
    /\ results = << >>
    /\ attempt = 0
    /\ lastErr = NoErr
    /\ info = NilInfo
    /\ pass = NoPass
    /\ checkPath = << >>
    /\ luksified = << >>
    /\ mappers = {}
    /\ dev = [n \in PartNames |-> PlainDevice(FALSE)]
    /\ nv = NoBlob
    /\ ran = {}
    /\ fault = ""
    /\ errAt = -1
    /\ done = << >>
    /\ host0 = [mappers |-> mappers, dev |-> dev, nv |-> nv]
    /\ tpmArgs = NoTPMArgs

\* no enumeration, no resolution and no unlock-all is running
GhwIdle ==
    /\ tree = << >>
    /\ enumPc = "idle"
    /\ enumerated = << >>

FindIdle ==
    /\ listing = << >>
    /\ blkid = [out |-> << >>, err |-> FALSE]
    /\ target = 0
    /\ found = [info |-> NilInfo, err |-> NoErr]
    /\ inList = [info |-> NilInfo, err |-> NoErr]
    /\ findPc = "idle"

UaIdle ==
    /\ devMapper = {}
    /\ unlockRun = NoErr
    /\ uaPc = "idle"
    /\ uaLabels = [isNil |-> TRUE, labels |-> << >>]
    /\ uaCalled = FALSE
    /\ uaRet = NoErr

MergeIdle ==
    /\ mergeA = << >>
    /\ mergeB = << >>
    /\ mergeOrder = << >>
    /\ mergePc = "idle"
    /\ mergeRet = << >>

ScanIdle ==
    /\ configs = << >>
    /\ web = << >>
    /\ csIdx = 0
    /\ frames = << >>
    /\ attempts = 0
    /\ scanPc = "idle"
    /\ result = << >>
    /\ scanErr = NoErr
    /\ fetched = << >>

TpmIdle ==
    /\ tpmParams = NoTPMArgs
    /\ tpmFaults = {}
    /\ tpmPc = "idle"
    /\ tpmCall = 0
    /\ nvram = {}
    /\ tpmBlob = << >>
    /\ tpmLog = << >>
    /\ tpmRets = << >>

ExIdle ==
    /\ fileValues = << >>
    /\ cmdline = << >>
    /\ exVersion = 0
    /\ exUKI = FALSE
    /\ exPc = "idle"
    /\ collected = << >>
    /\ extracted = << >>
    /\ chosen = << >>

LuksIdle ==
    /\ luVersion = 0
    /\ luArgs = << >>
    /\ luHost = << >>
    /\ luPc = "idle"
    /\ luAttempt = 0
    /\ luUnlockErr = NoErr
    /\ luTrace = << >>
    /\ luRet = NoErr
    /\ logRecords = {}
    /\ passUsed = {}

PassIdle ==
    /\ psIn = << >>
    /\ psPc = "idle"
    /\ psAttempt = 0
    /\ psResp = << >>
    /\ psHandled = {}
    /\ psPassword = << >>
    /\ psErr = NoErr
    /\ psLastErr = NoErr
    /\ psPass = << >>
    /\ psRet = << >>

FmtIdle ==
    /\ fmPc = "idle"
    /\ fmTries = 0
    /\ fmTrace = << >>
    /\ fmRet = NoErr

MntIdle ==
    /\ mtDev = << >>
    /\ mtTable = << >>
    /\ mtPc = "idle"
    /\ mtRet = NoErr
    /\ mtCreated = << >>

BusIdle ==
    /\ buses = << >>
    /\ Manager = 0
    /\ providerDir = {}
    /\ invoked = {}
    /\ busLast = ""
    /\ busReloads = 0
    /\ busOps = 0

PfIdle ==
    /\ pfFiles = << >>
    /\ pfPc = "idle"
    /\ pfResult = << >>

NmIdle ==
    /\ nmIn = << >>
    /\ nmInfo = NilInfo
    /\ nmMappers = {}
    /\ nmOpened = ""
    /\ nmTrace = << >>
    /\ nmPc = "idle"
    /\ nmRet = NoErr

LateIdle == FmtIdle /\ MntIdle /\ BusIdle /\ PfIdle /\ NmIdle

\* the late groups but one are idle
FmtRestIdle == MntIdle /\ BusIdle /\ PfIdle /\ NmIdle

MntRestIdle == FmtIdle /\ BusIdle /\ PfIdle /\ NmIdle

PathIdle == LuksIdle /\ PassIdle /\ LateIdle

CfgIdle == MergeIdle /\ ScanIdle /\ TpmIdle /\ ExIdle /\ PathIdle

BusRestIdle == FmtIdle /\ MntIdle /\ PfIdle /\ NmIdle

PfRestIdle == FmtIdle /\ MntIdle /\ BusIdle /\ NmIdle

NmRestIdle == FmtIdle /\ MntIdle /\ BusIdle /\ PfIdle

\* GetEncryptor is not running (used by the call specification)
SelectorIdle ==
    /\ kcryptConfig = NilConfig
    /\ isUKI = FALSE
    /\ systemctl = [out |-> << >>, err |-> FALSE]
    /\ tpmrm0 = FALSE
    /\ selPc = "idle"
    /\ encryptor = Nil
    /\ selRet = [enc |-> Nil, err |-> NoErr]

(***************************************************************************)
(* GetEncryptor.                                                           *)
(***************************************************************************)
\* variant: an absent config counts as a remote KMS setting
useRemoteKMS_NoNilCheck(cfg) ==
    cfg.isNil \/ cfg.ChallengerServer # "" \/ cfg.MDNS

useRemoteKMS(cfg) ==
    ~cfg.isNil /\ (cfg.ChallengerServer # "" \/ cfg.MDNS)

\* variant: the UKI flag is looked at before the remote KMS settings
ChooseStrategy_UKIFirst(cfg, uki) ==
    IF uki THEN TPMWithPCR
    ELSE IF useRemoteKMS(cfg) THEN RemoteKMS
    ELSE LocalTPMNV

ChooseStrategy(cfg, uki) ==
    IF useRemoteKMS(cfg) THEN RemoteKMS
    ELSE IF uki THEN TPMWithPCR
    ELSE LocalTPMNV

VersionChars == {"2", "5", "1", ".", "\n"}

RECURSIVE SeqsUpTo(_, _)
SeqsUpTo(S, n) ==
    IF n = 0 THEN {<< >>}
    ELSE LET shorter == SeqsUpTo(S, n - 1)
         IN  shorter \cup {Append(s, c) : s \in {t \in shorter : Len(t) = n - 1}, c \in S}

SystemctlRuns == [out : SeqsUpTo(VersionChars, MaxVersionLen), err : BOOLEAN]

InitSelector ==
    /\ kcryptConfig \in KcryptConfigs
    /\ isUKI \in BOOLEAN
    /\ systemctl \in SystemctlRuns
    /\ tpmrm0 \in BOOLEAN
    /\ selPc = "scan"
    /\ encryptor = Nil
    /\ selRet = [enc |-> Nil, err |-> NoErr]
    /\ OpsIdle
    /\ GhwIdle /\ FindIdle /\ UaIdle /\ CfgIdle

\* GetEncryptor, steps 1-4: scan the config, detect UKI, build the strategy
GetEncryptorChoose ==
    /\ selPc = "scan"
    /\ encryptor' = ChooseStrategy(kcryptConfig, isUKI)
    /\ selPc' = "validate"
    /\ UNCHANGED <<kcryptConfig, isUKI, systemctl, tpmrm0, selRet>>
    /\ UNCHANGED <<opsVars, enumVars>>

\* GetEncryptor, the trailing Validate() and the return
GetEncryptorValidate ==
    /\ selPc = "validate"
    /\ LET err == Validate(encryptor, systemctl, tpmrm0)
       IN  selRet' = IF err # NoErr
                     THEN [enc |-> Nil, err |-> Errorf("encryptor validation failed", "", err)]
                     ELSE [enc |-> encryptor, err |-> NoErr]
    /\ selPc' = "returned"
    /\ UNCHANGED <<kcryptConfig, isUKI, systemctl, tpmrm0, encryptor>>
    /\ UNCHANGED <<opsVars, enumVars>>

NextSelector == GetEncryptorChoose \/ GetEncryptorValidate

SpecSelector == InitSelector /\ [][NextSelector]_vars

(***************************************************************************)
(* The external commands and libraries, as the results they can give.      *)
(***************************************************************************)
MaxLabels == 2
\* variant: one attempt more
MaxAttempts_OneMore == 10 + 1

MaxAttempts == 10
LuksMaxRetries == 3

\* utils.SH("blkid -L <label>"): [out, err]
BlkidRuns(label, ms) ==
    LET n == NameOfLabel(label)
    IN  {[out |-> << >>, err |-> TRUE],
         [out |-> <<"blkid: error", "\n">>, err |-> TRUE],
         [out |-> <<"\n">>, err |-> FALSE]}
        \cup (IF n = "" THEN {} ELSE {[out |-> DevPath(n) \o <<"\n">>, err |-> FALSE]})
        \cup (IF n # "" /\ n \in ms
              THEN {[out |-> MapperPathOf(n) \o <<"\n">>, err |-> FALSE]} ELSE {})

\* ghw.Block(): [Disks, err]; the label may not be visible yet
BlockScans ==
    {[Disks |-> << >>, err |-> TRUE],
     [Disks |-> << >>, err |-> FALSE],
     [Disks |-> HostDisks, err |-> FALSE]}

\* the response of the discovery plugin to one published event, if any
PluginResponses ==
    {[present |-> FALSE, Data |-> NoPass, Error |-> ""]}
    \cup [present : {TRUE}, Data : {NoPass, PluginKey, OtherKey}, Error : {"", "boom"}]

\* the block device behind a /dev/<name> path, "" for any other path
DeviceName(path) ==
    IF Base(path) \in PartNames /\ path = DevPath(Base(path)) THEN Base(path) ELSE ""

(***************************************************************************)
(* findPartitionByLabel, partitionInfo.Locked, partitionInfo.MapperPath.   *)
(***************************************************************************)
FirstWithLabel(ps, label) ==
    LET hit == {i \in 1..Len(ps) : ps[i].FilesystemLabel = label}
    IN  IF hit = {} THEN 0 ELSE CHOOSE i \in hit : \A j \in hit : i <= j

\* variant: the output of blkid is used as it is, without strings.TrimSpace
findPartitionByLabel_NoTrim(partitionLabel, blk, scan) ==
    LET devicePath == blk.out
        partitionName == Base(devicePath)
        ps == Flatten(scan.Disks)
        i == FirstWithLabel(ps, partitionLabel)
    IN  IF blk.err \/ devicePath = << >>
        THEN [info |-> NilInfo, err |-> NewErr("partition not found")]
        ELSE IF scan.err
        THEN [info |-> NilInfo, err |-> Errorf("failed to scan block devices", "", NewErr("ghw"))]
        ELSE IF i = 0
        THEN [info |-> NilInfo, err |-> NewErr("partition not found in block devices")]
        ELSE [info |-> [isNil |-> FALSE, DevicePath |-> devicePath,
                        PartitionName |-> partitionName, Partition |-> ps[i]],
              err |-> NoErr]

findPartitionByLabel(partitionLabel, blk, scan) ==
    LET devicePath == TrimSpace(blk.out)
        partitionName == Base(devicePath)
        ps == Flatten(scan.Disks)
        i == FirstWithLabel(ps, partitionLabel)
    IN  IF blk.err \/ devicePath = << >>
        THEN [info |-> NilInfo, err |-> NewErr("partition not found")]
        ELSE IF scan.err
        THEN [info |-> NilInfo, err |-> Errorf("failed to scan block devices", "", NewErr("ghw"))]
        ELSE IF i = 0
        THEN [info |-> NilInfo, err |-> NewErr("partition not found in block devices")]
        ELSE [info |-> [isNil |-> FALSE, DevicePath |-> devicePath,
                        PartitionName |-> partitionName, Partition |-> ps[i]],
              err |-> NoErr]

MapperPath(p) == IF p.isNil THEN << >> ELSE MapperPathOf(p.PartitionName)

\* utils.Exists on a /dev/mapper path
Exists(path, ms) == \E n \in ms : path = MapperPathOf(n)

\* variant: the mapper node is never looked at
Locked_Always(p, ms) == TRUE

Locked(p, ms) == IF p.isNil THEN FALSE ELSE ~Exists(MapperPath(p), ms)

(***************************************************************************)
(* The plugin bus: bus.Reload, Bus.Initialize, getPasswordFromChallenger.  *)
(***************************************************************************)
\* variant: the response handler lets an errored response through
BusHandlerExits_Never(r) == FALSE

\* the response handler registered by Bus.Initialize calls os.Exit(1)
BusHandlerExits(r) == r.present /\ r.Error # ""

\* variant: an empty password is handed on
getPasswordFromChallenger_NoEmptyCheck(r, publishErr) ==
    LET password == IF r.present /\ ~publishErr THEN r.Data ELSE NoPass
    IN  IF publishErr
        THEN [exit |-> FALSE, password |-> password, err |-> NewErr("publish")]
        ELSE IF r.present /\ r.Error # ""
        THEN [exit |-> TRUE, password |-> password, err |-> NoErr]
        ELSE [exit |-> FALSE, password |-> password, err |-> NoErr]

\* Publish runs the handlers before it returns; its own result then
\* overwrites the err set by the handler of getPasswordFromChallenger
getPasswordFromChallenger(r, publishErr) ==
    LET password == IF r.present /\ ~publishErr THEN r.Data ELSE NoPass
    IN  IF publishErr
        THEN [exit |-> FALSE, password |-> password, err |-> NewErr("publish")]
        ELSE IF BusHandlerExits(r)
        THEN [exit |-> TRUE, password |-> password, err |-> NoErr]
        ELSE IF password = NoPass
        THEN [exit |-> FALSE, password |-> password, err |-> NewErr("received empty password")]
        ELSE [exit |-> FALSE, password |-> password, err |-> NoErr]

\* the passphrase step failed as seen from the plugin side
PluginFailed(r, publishErr) ==
    publishErr \/ ~r.present \/ r.Error # "" \/ r.Data = NoPass

(***************************************************************************)
(* luksUnlock and systemd-cryptsetup attach.                               *)
(***************************************************************************)
LuksEnvs(d, password) ==
    [devOk : BOOLEAN,
     firstOk : IF d.luks /\ d.pwslot /\ d.key = password
               THEN 0..LuksMaxRetries ELSE {0},
     node : BOOLEAN]

\* firstOk is the attempt (1..maxRetries) whose open and unlock succeed, 0 if none
luksUnlock(device, mapper, env, ms) ==
    IF ~env.devOk
    THEN [err |-> NewErr("device not accessible"), mappers |-> ms]
    ELSE IF Exists(MapperPathOf(mapper), ms)
    THEN [err |-> NoErr, mappers |-> ms]
    ELSE IF env.firstOk = 0
    THEN [err |-> Errorf("LUKS unlock failed after 3 attempts", "", NewErr("luks")),
          mappers |-> ms]
    ELSE IF ~env.node
    THEN [err |-> Errorf("mapper device not created after unlock", mapper, NewErr("stat")),
          mappers |-> ms]
    ELSE [err |-> NoErr, mappers |-> ms \cup {mapper}]

(***************************************************************************)
(* The TPM passphrase store: getOrCreateLocalTPMPassphrase.                *)
(***************************************************************************)
DefaultLocalPassphraseNVIndex == "0x1500000"

\* variant: the NV index of the config is not looked at
LocalTPMParams_DefaultOnly(cfg) ==
    [nvIndex |-> DefaultLocalPassphraseNVIndex,
     cIndex |-> IF cfg.isNil THEN "" ELSE cfg.CIndex,
     tpmDevice |-> IF cfg.isNil THEN "" ELSE cfg.TPMDevice]

\* "Extract TPM configuration" of LocalTPMNVEncryptor.Encrypt / unlockPartition
LocalTPMParams(cfg) ==
    [nvIndex |-> IF ~cfg.isNil /\ cfg.NVIndex # "" THEN cfg.NVIndex
                 ELSE DefaultLocalPassphraseNVIndex,
     cIndex |-> IF cfg.isNil THEN "" ELSE cfg.CIndex,
     tpmDevice |-> IF cfg.isNil THEN "" ELSE cfg.TPMDevice]

\* the options getOrCreateLocalTPMPassphrase hands to tpm.ReadBlob / StoreBlob
StoreArgs(p) ==
    [p EXCEPT !.nvIndex = IF p.nvIndex = "" THEN DefaultLocalPassphraseNVIndex
                          ELSE p.nvIndex]

TPMEnvs == [read : BOOLEAN, decrypt : BOOLEAN, encrypt : BOOLEAN, store : BOOLEAN, seed : Seeds]

RandomString(length, seed) == getRandomString(length, seed)

generateAndStoreLocalTPMPassphrase(blob, env) ==
    LET rand == RandomString(RandomPassLen, env.seed)
    IN  IF ~env.encrypt THEN [pass |-> NoPass, err |-> NewErr("encrypt blob"), nv |-> blob]
        ELSE IF ~env.store THEN [pass |-> rand, err |-> NewErr("store blob"), nv |-> blob]
        ELSE [pass |-> rand, err |-> NoErr, nv |-> EncryptBlob(rand)]

getOrCreateLocalTPMPassphrase(blob, env) ==
    IF ~(blob.present /\ env.read)
    THEN generateAndStoreLocalTPMPassphrase(blob, env)
    ELSE IF ~env.decrypt THEN [pass |-> NoPass, err |-> NewErr("decrypt blob"), nv |-> blob]
    ELSE [pass |-> DecryptBlob(blob), err |-> NoErr, nv |-> blob]

(***************************************************************************)
(* One Encrypt(partitions) / Unlock(partitions) call.                      *)
(***************************************************************************)
OpsConfigs ==
    {NilConfig,
     [isNil |-> FALSE, ChallengerServer |-> "kms.local", MDNS |-> FALSE,
      NVIndex |-> "", CIndex |-> "", TPMDevice |-> ""]}

\* the configs of a Local TPM NV encryptor: nil, all fields empty, TPM fields set
LocalConfigs ==
    {NilConfig,
     [isNil |-> FALSE, ChallengerServer |-> "", MDNS |-> FALSE,
      NVIndex |-> "", CIndex |-> "", TPMDevice |-> ""],
     [isNil |-> FALSE, ChallengerServer |-> "", MDNS |-> FALSE,
      NVIndex |-> "0x1600000", CIndex |-> "0x1600001", TPMDevice |-> "/dev/tpmrm1"]}

Encryptors ==
    {[name |-> RemoteKMS, kcryptConfig |-> c, bindPublicPCRs |-> << >>] : c \in OpsConfigs}
    \cup {[name |-> TPMWithPCR, kcryptConfig |-> NilConfig, bindPublicPCRs |-> b] :
            b \in {<< >>, <<"7">>}}
    \cup {[name |-> LocalTPMNV, kcryptConfig |-> c, bindPublicPCRs |-> << >>] : c \in LocalConfigs}

partitionLabel == partitions[idx]

ctlVars == <<idx, pc, status, ret, results, attempt, lastErr, errAt>>

Goto(p) ==
    /\ pc' = p
    /\ UNCHANGED <<idx, status, ret, results, attempt, lastErr, errAt>>

\* variant: `continue` without recording the error
Retry_NoRecord(err) ==
    /\ attempt' = attempt + 1
    /\ pc' = "loop"
    /\ UNCHANGED <<lastErr, errAt, idx, status, ret, results>>

\* `lastErr = err; continue` of unlockPartition
Retry(err) ==
    /\ lastErr' = err
    /\ errAt' = attempt
    /\ attempt' = attempt + 1
    /\ pc' = "loop"
    /\ UNCHANGED <<idx, status, ret, results>>

BatchMsg == IF op = "Unlock" THEN "failed to unlock partition" ELSE "failed to encrypt partition"

\* variant: a failed label is logged and the loop goes on
LabelReturn_Continue(err) ==
    /\ results' = Append(results, [label |-> partitionLabel, err |-> err])
    /\ idx' = idx + 1
    /\ pc' = "range"
    /\ UNCHANGED <<status, ret, attempt, lastErr, errAt>>

\* the per-label function returns err to the loop of Encrypt / Unlock
LabelReturn(err) ==
    /\ results' = Append(results, [label |-> partitionLabel, err |-> err])
    /\ IF err = NoErr
       THEN /\ idx' = idx + 1
            /\ pc' = "range"
            /\ UNCHANGED <<status, ret>>
       ELSE /\ status' = "returned"
            /\ ret' = Errorf(BatchMsg, partitionLabel, err)
            /\ pc' = "end"
            /\ UNCHANGED idx
    /\ UNCHANGED <<attempt, lastErr, errAt>>

\* os.Exit(1)
Exit ==
    /\ status' = "exited"
    /\ pc' = "end"
    /\ UNCHANGED <<idx, ret, results, attempt, lastErr, errAt>>

InitCalls ==
    /\ SelectorIdle
    /\ GhwIdle /\ FindIdle /\ UaIdle /\ CfgIdle
    /\ op \in {"Encrypt", "Unlock"}
    /\ e \in Encryptors
    /\ partitions \in SeqsUpTo(Labels, MaxLabels)
    /\ idx = 1
    /\ pc = "range"
    /\ status = "running"
    /\ ret = NoErr
    /\ results = << >>
    /\ attempt = 0
    /\ lastErr = NoErr
    /\ info = NilInfo
    /\ pass = NoPass
    /\ checkPath = << >>
    /\ luksified = << >>
    /\ IF op = "Unlock"
       THEN /\ mappers \in SUBSET PartNames
            /\ dev = [n \in PartNames |-> LuksDevice(PluginKey, <<"11">>, "ext4")]
       ELSE /\ mappers = {}
            /\ dev \in [PartNames -> {PlainDevice(m) : m \in BOOLEAN}]
    /\ IF e.name = LocalTPMNV
       THEN nv \in {NoBlob, EncryptBlob(PluginKey)}
       ELSE nv = NoBlob    \* only the Local TPM NV strategy reads the NV index
    /\ ran = {}
    /\ fault = ""
    /\ errAt = -1
    /\ done = << >>
    /\ host0 = [mappers |-> mappers, dev |-> dev, nv |-> nv]
    /\ tpmArgs = NoTPMArgs

\* head of `for _, partition := range partitions` and the final `return nil`
RangeNext ==
    /\ status = "running" /\ pc = "range"
    /\ IF idx > Len(partitions)
       THEN /\ status' = "returned"
            /\ ret' = NoErr
            /\ pc' = "end"
            /\ UNCHANGED <<attempt, lastErr, errAt>>
       ELSE /\ pc' = "loop"
            /\ attempt' = 0
            /\ lastErr' = NoErr
            /\ errAt' = -1
            /\ UNCHANGED <<status, ret>>
    /\ ran' = {} /\ fault' = "" /\ done' = << >>
    /\ info' = NilInfo /\ pass' = NoPass /\ checkPath' = << >>
    /\ UNCHANGED <<idx, results, op, e, partitions, hostVars, host0, tpmArgs, luksified, selVars, enumVars>>

\* head of `for attempt := 0; attempt < 10; attempt++` and the return after it
AttemptStart ==
    /\ status = "running" /\ pc = "loop" /\ op = "Unlock"
    /\ IF attempt < MaxAttempts
       THEN Goto("find")
       ELSE LabelReturn(Errorf("failed after 10 attempts", "", lastErr))
    /\ ran' = {} /\ fault' = ""
    /\ info' = NilInfo /\ pass' = NoPass /\ checkPath' = << >>
    /\ UNCHANGED <<done, op, e, partitions, hostVars, host0, tpmArgs, luksified, selVars, enumVars>>

UnlockFind ==
    /\ status = "running" /\ pc = "find" /\ op = "Unlock"
    /\ \E blk \in BlkidRuns(partitionLabel, mappers), scan \in BlockScans :
         LET r == findPartitionByLabel(partitionLabel, blk, scan)
         IN  /\ ran' = ran \cup {"blkid"}
             /\ info' = r.info
             /\ IF r.err # NoErr
                THEN Retry(r.err) /\ fault' = "resolve"
                ELSE Goto("locked") /\ fault' = ""
    /\ UNCHANGED <<pass, checkPath, done, op, e, partitions, hostVars, host0, tpmArgs, luksified, selVars, enumVars>>

PassStep == 
    CASE e.name = RemoteKMS -> "getpass"
      [] e.name = LocalTPMNV -> "tpmpass"
      [] e.name = TPMWithPCR -> "attach"

UnlockLocked ==
    /\ status = "running" /\ pc = "locked" /\ op = "Unlock"
    /\ ran' = ran \cup {"stat"}
    /\ IF ~Locked(info, mappers) THEN LabelReturn(NoErr) ELSE Goto(PassStep)
    /\ UNCHANGED <<fault, info, pass, checkPath, done, op, e, partitions, hostVars, host0, tpmArgs, luksified, selVars, enumVars>>

UnlockGetPass ==
    /\ status = "running" /\ pc = "getpass" /\ op = "Unlock"
    /\ \E publishErr \in BOOLEAN, r \in PluginResponses :
         LET g == getPasswordFromChallenger(r, publishErr)
         IN  /\ ran' = ran \cup {"plugin"}
             /\ fault' = IF PluginFailed(r, publishErr) THEN "passphrase" ELSE ""
             /\ pass' = g.password
             /\ IF g.exit THEN Exit
                ELSE IF g.err # NoErr
                THEN Retry(Errorf("failed to get password", "", g.err))
                ELSE Goto("luksUnlock")
    /\ UNCHANGED <<info, checkPath, done, op, e, partitions, hostVars, host0, tpmArgs, luksified, selVars, enumVars>>

UnlockTPMPass ==
    /\ status = "running" /\ pc = "tpmpass" /\ op = "Unlock"
    /\ \E env \in TPMEnvs :
         LET g == getOrCreateLocalTPMPassphrase(nv, env)
         IN  /\ ran' = ran \cup {"tpm"}
             /\ tpmArgs' = StoreArgs(LocalTPMParams(e.kcryptConfig))
             /\ nv' = g.nv
             /\ pass' = g.pass
             /\ IF g.err # NoErr
                THEN Retry(Errorf("failed to get passphrase from local TPM", "", g.err))
                     /\ fault' = "passphrase"
                ELSE Goto("luksUnlock") /\ fault' = ""
    /\ UNCHANGED <<info, checkPath, done, op, e, partitions, mappers, dev, host0, luksified, selVars, enumVars>>

UnlockLuks ==
    /\ status = "running" /\ pc = "luksUnlock" /\ op = "Unlock"
    /\ \E env \in LuksEnvs(dev[DeviceName(info.DevicePath)], pass) :
         LET r == luksUnlock(info.DevicePath, info.PartitionName, env, mappers)
         IN  /\ ran' = ran \cup {"luksUnlock"}
             /\ mappers' = r.mappers
             /\ IF r.err # NoErr
                THEN Retry(Errorf("unlock failed", "", r.err)) /\ fault' = "unlock"
                ELSE Goto("verify") /\ fault' = ""
    /\ UNCHANGED <<info, pass, checkPath, done, op, e, partitions, dev, nv, host0, tpmArgs, luksified, selVars, enumVars>>

\* /usr/lib/systemd/systemd-cryptsetup attach <name> <path> - tpm2-device=auto
UnlockAttach ==
    /\ status = "running" /\ pc = "attach" /\ op = "Unlock"
    /\ \E ok \in BOOLEAN :
         /\ ok => dev[DeviceName(info.DevicePath)].tpm2 # << >>
         /\ ran' = ran \cup {"attach"}
         /\ IF ~ok
            THEN /\ Retry(Errorf("TPM unlock failed", "", NewErr("exit status")))
                 /\ fault' = "unlock"
                 /\ UNCHANGED mappers
            ELSE /\ Goto("verify")
                 /\ fault' = ""
                 /\ mappers' = mappers \cup {info.PartitionName}
    /\ UNCHANGED <<info, pass, checkPath, done, op, e, partitions, dev, nv, host0, tpmArgs, luksified, selVars, enumVars>>

\* variant: any output of the visibility check is accepted
Visible_Any(out) == TRUE

Visible(out) == TrimSpace(out) # << >>

UnlockVerify ==
    /\ status = "running" /\ pc = "verify" /\ op = "Unlock"
    /\ \E blk \in BlkidRuns(partitionLabel, mappers) :
         /\ ran' = ran \cup {"blkid-verify"}
         /\ checkPath' = blk.out
         /\ IF Visible(blk.out)
            THEN LabelReturn(NoErr) /\ fault' = ""
            ELSE Retry(NewErr("partition unlocked but not visible")) /\ fault' = "visibility"
    /\ UNCHANGED <<info, pass, done, op, e, partitions, hostVars, host0, tpmArgs, luksified, selVars, enumVars>>

(***************************************************************************)
(* Encrypt: luksify (Remote KMS), luksifyMeasurements (TPM with PCR        *)
(* policy), EncryptWithLocalTPMPassphrase + luksifyWithPassphrase (Local). *)
(***************************************************************************)
\* variant: the password slot is wiped before the filesystem is made
EncryptSteps_WipeEarly(name) ==
    CASE name = RemoteKMS ->
            <<"settle", "find", "getpass", "unmount", "createLuks", "formatLuks">>
      [] name = TPMWithPCR ->
            <<"settle", "find", "genpass", "unmount", "createLuks", "sync",
              "enroll", "wipe", "formatLuks">>
      [] name = LocalTPMNV ->
            <<"tpmpass", "settle", "find", "unmount", "createLuks", "formatLuks">>

\* the statements of the per-label function, in program order
EncryptSteps(name) ==
    CASE name = RemoteKMS ->
            <<"settle", "find", "getpass", "unmount", "createLuks", "formatLuks">>
      [] name = TPMWithPCR ->
            <<"settle", "find", "genpass", "unmount", "createLuks", "sync",
              "enroll", "formatLuks", "wipe">>
      [] name = LocalTPMNV ->
            <<"tpmpass", "settle", "find", "unmount", "createLuks", "formatLuks">>

\* fmt.Sprintf("%s:%s:%s", label, name, uuid)
Sprintf3(a, b, c) == <<a, ":", b, ":", c>>

\* what the per-label function returns besides the error: luksify and
\* luksifyWithPassphrase return label:name:uuid of the partition record,
\* luksifyMeasurements returns an error only
luksifyReturn ==
    IF e.name = TPMWithPCR THEN << >>
    ELSE Sprintf3(info.Partition.FilesystemLabel, info.Partition.Name, info.Partition.UUID)

\* the statement `step` succeeded: go on with the next one, or return nil
StepOk(step) ==
    /\ done' = Append(done, step)
    /\ IF Len(done) + 1 >= Len(EncryptSteps(e.name))
       THEN LabelReturn(NoErr) /\ luksified' = luksifyReturn
       ELSE Goto(EncryptSteps(e.name)[Len(done) + 2]) /\ luksified' = luksified

\* the statement failed: `return err`
StepFail(err) ==
    /\ LabelReturn(err)
    /\ luksified' = << >>
    /\ UNCHANGED done

\* first statement of the per-label function
EncryptBegin ==
    /\ status = "running" /\ pc = "loop" /\ op = "Encrypt"
    /\ Goto(EncryptSteps(e.name)[1])
    /\ UNCHANGED <<ran, fault, done, info, pass, checkPath, op, e, partitions,
                   hostVars, host0, tpmArgs, luksified, selVars, enumVars>>

\* UdevAdmSettle (Remote KMS) or udevAdmTrigger: trigger, sync, settle
EncSettle ==
    /\ status = "running" /\ pc = "settle" /\ op = "Encrypt"
    /\ \E ok \in BOOLEAN :
         /\ ran' = ran \cup {"udevadm"}
         /\ IF ok THEN StepOk("settle")
            ELSE StepFail(NewErr("udevadm settle failed"))
    /\ UNCHANGED <<fault, info, pass, checkPath, op, e, partitions, hostVars, host0, tpmArgs, selVars, enumVars>>

\* findPartition of lock.go: the first partition that carries the label
findPartition(label, scan) ==
    LET ps == Flatten(scan.Disks)
        i == FirstWithLabel(ps, label)
    IN  IF scan.err THEN [info |-> NilInfo, err |-> NewErr("ghw")]
        ELSE IF i = 0 THEN [info |-> NilInfo, err |-> Errorf("not found label", label, NoErr)]
        ELSE [info |-> [isNil |-> FALSE, DevicePath |-> DevPath(ps[i].Name),
                        PartitionName |-> ps[i].Name, Partition |-> ps[i]],
              err |-> NoErr]

EncFind ==
    /\ status = "running" /\ pc = "find" /\ op = "Encrypt"
    /\ \E blk \in BlkidRuns(partitionLabel, mappers), scan \in BlockScans :
         LET r == IF e.name = RemoteKMS
                  THEN findPartitionByLabel(partitionLabel, blk, scan)
                  ELSE findPartition(partitionLabel, scan)
         IN  /\ ran' = ran \cup (IF e.name = RemoteKMS THEN {"blkid"} ELSE {})
             /\ info' = r.info
             /\ IF r.err # NoErr THEN StepFail(r.err) ELSE StepOk("find")
    /\ UNCHANGED <<fault, pass, checkPath, op, e, partitions, hostVars, host0, tpmArgs, selVars, enumVars>>

EncGetPass ==
    /\ status = "running" /\ pc = "getpass" /\ op = "Encrypt"
    /\ \E publishErr \in BOOLEAN, r \in PluginResponses :
         LET g == getPasswordFromChallenger(r, publishErr)
         IN  /\ ran' = ran \cup {"plugin"}
             /\ fault' = IF PluginFailed(r, publishErr) THEN "passphrase" ELSE ""
             /\ pass' = g.password
             /\ IF g.exit THEN Exit /\ UNCHANGED <<done, luksified>>
                ELSE IF g.err # NoErr THEN StepFail(g.err)
                ELSE StepOk("getpass")
    /\ UNCHANGED <<info, checkPath, op, e, partitions, hostVars, host0, tpmArgs, selVars, enumVars>>

\* pass := getRandomString(32)
EncGenPass ==
    /\ status = "running" /\ pc = "genpass" /\ op = "Encrypt"
    /\ \E seed \in Seeds : pass' = getRandomString(RandomPassLen, seed)
    /\ StepOk("genpass")
    /\ UNCHANGED <<ran, fault, info, checkPath, op, e, partitions, hostVars, host0, tpmArgs, selVars, enumVars>>

\* EncryptWithLocalTPMPassphrase: GetOrCreateLocalTPMPassphrase
EncTPMPass ==
    /\ status = "running" /\ pc = "tpmpass" /\ op = "Encrypt"
    /\ \E env \in TPMEnvs :
         LET g == getOrCreateLocalTPMPassphrase(nv, env)
         IN  /\ ran' = ran \cup {"tpm"}
             /\ tpmArgs' = StoreArgs(LocalTPMParams(e.kcryptConfig))
             /\ nv' = g.nv
             /\ pass' = g.pass
             /\ IF g.err # NoErr
                THEN StepFail(Errorf("failed to get/create local TPM passphrase", "", g.err))
                ELSE StepOk("tpmpass")
    /\ UNCHANGED <<fault, info, checkPath, op, e, partitions, mappers, dev, host0, selVars, enumVars>>

\* unmountIfMounted: [err, mounted] from the mount table and the umount result
unmountIfMounted(mounted, env) ==
    IF ~env.open THEN [err |-> NewErr("failed to open /proc/mounts"), mounted |-> mounted]
    ELSE IF ~env.scan THEN [err |-> NewErr("error reading /proc/mounts"), mounted |-> mounted]
    ELSE IF ~mounted THEN [err |-> NoErr, mounted |-> FALSE]
    ELSE IF ~env.umount THEN [err |-> NewErr("failed to unmount"), mounted |-> TRUE]
    ELSE [err |-> NoErr, mounted |-> FALSE]

EncUnmount ==
    /\ status = "running" /\ pc = "unmount" /\ op = "Encrypt"
    /\ \E env \in [open : BOOLEAN, scan : BOOLEAN, umount : BOOLEAN] :
         LET n == DeviceName(info.DevicePath)
             r == unmountIfMounted(dev[n].mounted, env)
         IN  /\ dev' = [dev EXCEPT ![n].mounted = r.mounted]
             /\ IF r.err # NoErr THEN StepFail(r.err) ELSE StepOk("unmount")
    /\ UNCHANGED <<ran, fault, info, pass, checkPath, op, e, partitions, mappers, nv, host0, tpmArgs, selVars, enumVars>>

\* cryptsetup luksFormat --type luks2 ... <dev>, passphrase on stdin
EncCreateLuks ==
    /\ status = "running" /\ pc = "createLuks" /\ op = "Encrypt"
    /\ \E ok \in BOOLEAN :
         LET n == DeviceName(info.DevicePath)
         IN  /\ ok => ~dev[n].mounted
             /\ ran' = ran \cup {"cryptsetup luksFormat"}
             /\ IF ok
                THEN /\ dev' = [dev EXCEPT ![n] =
                                  [mounted |-> FALSE, luks |-> TRUE, pwslot |-> TRUE,
                                   key |-> pass, tpm2 |-> << >>, fs |-> ""]]
                     /\ StepOk("createLuks")
                ELSE /\ UNCHANGED dev
                     /\ StepFail(NewErr("exit status"))
    /\ UNCHANGED <<fault, info, pass, checkPath, op, e, partitions, mappers, nv, host0, tpmArgs, selVars, enumVars>>

\* syscall.Sync()
EncSync ==
    /\ status = "running" /\ pc = "sync" /\ op = "Encrypt"
    /\ StepOk("sync")
    /\ UNCHANGED <<ran, fault, info, pass, checkPath, op, e, partitions, hostVars, host0, tpmArgs, selVars, enumVars>>

\* the public-key PCRs of the policy: ["11"] unless configured
PublicKeyPcrs(publicKeyPcrs) ==
    IF Len(publicKeyPcrs) = 0 THEN <<"11">> ELSE publicKeyPcrs

\* systemd-cryptenroll --tpm2-public-key=... <device>, PASSWORD in the environment
EncEnroll ==
    /\ status = "running" /\ pc = "enroll" /\ op = "Encrypt"
    /\ \E ok \in BOOLEAN :
         LET n == DeviceName(info.DevicePath)
         IN  /\ ok => (dev[n].luks /\ dev[n].pwslot /\ dev[n].key = pass)
             /\ ran' = ran \cup {"systemd-cryptenroll"}
             /\ IF ok
                THEN /\ dev' = [dev EXCEPT ![n].tpm2 = PublicKeyPcrs(e.bindPublicPCRs)]
                     /\ StepOk("enroll")
                ELSE /\ UNCHANGED dev
                     /\ StepFail(NewErr("exit status"))
    /\ UNCHANGED <<fault, info, pass, checkPath, op, e, partitions, mappers, nv, host0, tpmArgs, selVars, enumVars>>

FormatStages == {"wait", "mkfs", "refresh", "close", "ok"}

\* formatLuks(device, name, mapper, label, pass): unlock, waitDevice, mkfs.ext4,
\* cryptsetup refresh, cryptsetup close; `stage` is the first command that fails
formatLuks(device, name, mapper, label, d, ms, env, stage) ==
    LET u == luksUnlock(device, name, env, ms)
    IN  IF u.err # NoErr
        THEN [err |-> Errorf("unlock err", "", u.err), mappers |-> u.mappers, d |-> d]
        ELSE IF stage = "wait" \/ ~Exists(mapper, u.mappers)
        THEN [err |-> Errorf("waitdevice err", "", NewErr("no device found")),
              mappers |-> u.mappers, d |-> d]
        ELSE IF stage = "mkfs"
        THEN [err |-> Errorf("mkfs err", "", NewErr("exit status")),
              mappers |-> u.mappers, d |-> d]
        ELSE IF stage = "refresh"
        THEN [err |-> Errorf("refresh err", "", NewErr("exit status")),
              mappers |-> u.mappers, d |-> [d EXCEPT !.fs = label]]
        ELSE IF stage = "close"
        THEN [err |-> Errorf("lock err", "", NewErr("exit status")),
              mappers |-> u.mappers, d |-> [d EXCEPT !.fs = label]]
        ELSE [err |-> NoErr, mappers |-> u.mappers \ {Base(mapper)},
              d |-> [d EXCEPT !.fs = label]]

\* the name and mapper arguments the strategy hands to formatLuks
FormatName == info.Partition.Name
FormatMapper ==
    IF e.name = RemoteKMS THEN MapperPath(info) ELSE MapperPathOf(info.Partition.Name)

EncFormatLuks ==
    /\ status = "running" /\ pc = "formatLuks" /\ op = "Encrypt"
    /\ LET n == DeviceName(info.DevicePath)
       IN  \E env \in LuksEnvs(dev[n], pass), stage \in FormatStages :
             LET r == formatLuks(info.DevicePath, FormatName, FormatMapper,
                                 partitionLabel, dev[n], mappers, env, stage)
             IN  /\ ran' = ran \cup {"formatLuks"}
                 /\ mappers' = r.mappers
                 /\ dev' = [dev EXCEPT ![n] = r.d]
                 /\ IF r.err # NoErr THEN StepFail(r.err) ELSE StepOk("formatLuks")
    /\ UNCHANGED <<fault, info, pass, checkPath, op, e, partitions, nv, host0, tpmArgs, selVars, enumVars>>

\* systemd-cryptenroll --wipe-slot=password <device>
EncWipe ==
    /\ status = "running" /\ pc = "wipe" /\ op = "Encrypt"
    /\ \E ok \in BOOLEAN :
         LET n == DeviceName(info.DevicePath)
         IN  /\ ran' = ran \cup {"wipe-slot"}
             /\ IF ok
                THEN /\ dev' = [dev EXCEPT ![n].pwslot = FALSE, ![n].key = NoPass]
                     /\ StepOk("wipe")
                ELSE /\ UNCHANGED dev
                     /\ StepFail(NewErr("exit status"))
    /\ UNCHANGED <<fault, info, pass, checkPath, op, e, partitions, mappers, nv, host0, tpmArgs, selVars, enumVars>>

NextCalls ==
    \/ RangeNext
    \/ AttemptStart
    \/ UnlockFind
    \/ UnlockLocked
    \/ UnlockGetPass
    \/ UnlockTPMPass
    \/ UnlockLuks
    \/ UnlockAttach
    \/ UnlockVerify
    \/ EncryptBegin
    \/ EncSettle
    \/ EncFind
    \/ EncGetPass
    \/ EncGenPass
    \/ EncTPMPass
    \/ EncUnmount
    \/ EncCreateLuks
    \/ EncSync
    \/ EncEnroll
    \/ EncFormatLuks
    \/ EncWipe

SpecCalls == InitCalls /\ [][NextCalls]_vars

(***************************************************************************)
(* Properties of the selector.                                             *)
(***************************************************************************)
RemoteConfigured ==
    ~kcryptConfig.isNil /\ (kcryptConfig.ChallengerServer # "" \/ kcryptConfig.MDNS)

\* C1: for every effective kcrypt config (nil included) and every UKI flag,
\* GetEncryptor chooses Remote KMS iff challenger_server is non-empty or mdns
\* is true; otherwise TPM with PCR policy iff the UKI flag is set; otherwise
\* Local TPM NV passphrase.
C1_SelectorDecision ==
    selPc \in {"validate", "returned"} =>
        /\ encryptor \in Strategies
        /\ (encryptor = RemoteKMS) <=> RemoteConfigured
        /\ (encryptor = TPMWithPCR) <=> (~RemoteConfigured /\ isUKI)
        /\ (encryptor = LocalTPMNV) <=> (~RemoteConfigured /\ ~isUKI)

\* mdns alone selects Remote KMS, also on a UKI boot
C1_Witness ==
    /\ selPc = "returned"
    /\ encryptor = RemoteKMS
    /\ kcryptConfig.ChallengerServer = ""
    /\ kcryptConfig.MDNS
    /\ isUKI

\* the first integer of the command output, -1 when there is none
SystemdVersion ==
    IF systemctl.err \/ FindDigits(TrimSpace(systemctl.out)) = << >> THEN -1
    ELSE Atoi(FindDigits(TrimSpace(systemctl.out)))

Prerequisites(enc) ==
    CASE enc = RemoteKMS -> TRUE
      [] enc = TPMWithPCR -> SystemdVersion >= 252 /\ tpmrm0
      [] enc = LocalTPMNV -> tpmrm0

\* C2: GetEncryptor returns an encryptor only if Validate of the chosen
\* strategy succeeded and an error with no encryptor otherwise; Remote KMS
\* has no prerequisites, TPM with PCR policy needs systemd >= 252 and
\* /dev/tpmrm0, Local TPM NV needs /dev/tpmrm0.
C2_ValidatedOrError ==
    selPc = "returned" =>
        /\ (selRet.enc # Nil) <=> Prerequisites(encryptor)
        /\ (selRet.enc # Nil) => (selRet.enc = encryptor /\ selRet.err = NoErr)
        /\ (selRet.enc = Nil) => selRet.err # NoErr

\* systemd exactly 252 with a TPM passes the TPM with PCR policy validation
C2_Witness ==
    /\ selPc = "returned"
    /\ selRet.enc = TPMWithPCR
    /\ FindDigits(TrimSpace(systemctl.out)) = <<"2", "5", "2">>
    /\ tpmrm0

(***************************************************************************)
(* Properties of Unlock.                                                   *)
(***************************************************************************)
\* the positions inside one attempt of unlockPartition
UnlockStepPcs == {"find", "locked", "getpass", "tpmpass", "luksUnlock", "attach", "verify"}

\* C3: for each strategy, unlocking one label makes at most 10 attempts: the
\* attempt counter never passes 10 and a step of an attempt only runs with a
\* counter of 0..9.
C3_AtMostTenAttempts ==
    op = "Unlock" =>
        /\ attempt \in 0..10
        /\ (pc \in UnlockStepPcs) => attempt \in 0..9

\* the tenth attempt, numbered 9, is at its unlock command
C3_Witness ==
    /\ op = "Unlock"
    /\ attempt = 9
    /\ pc \in {"luksUnlock", "attach"}
    /\ errAt = 8

\* the result recorded for the label handled last
LastResult == results[Len(results)]

\* C4 as stated: unlock of [L] with the mapper device of L present when the
\* call is made returns success and runs no subprocess beyond the existence
\* check.
C4_NoSubprocessWhenUnlocked ==
    (/\ op = "Unlock"
     /\ Len(partitions) = 1
     /\ NameOfLabel(partitions[1]) \in host0.mappers) =>
        /\ ran \subseteq {"stat"}
        /\ status # "exited"
        /\ (status = "returned") => (ret = NoErr)

\* C4: for each strategy, an unlock attempt that has resolved the label and
\* finds the mapper device of the resolved partition existing returns success
\* for the label at once: the `blkid -L` of the resolution and the existence
\* check are all the attempt runs, no passphrase is requested, the TPM NV
\* index is not touched and no device is mapped.
C4_UnlockedReturnsAfterResolve ==
    [][(/\ op = "Unlock"
        /\ pc = "locked"
        /\ Exists(MapperPath(info), mappers)) =>
            (/\ Len(results') = Len(results) + 1
             /\ results'[Len(results')] = [label |-> partitionLabel, err |-> NoErr]
             /\ ran' = {"blkid", "stat"}
             /\ pass' = NoPass
             /\ UNCHANGED <<mappers, dev, nv, attempt>>)]_vars

\* an already unlocked label has been reported as success
C4_Witness ==
    /\ op = "Unlock"
    /\ pc = "range"
    /\ Len(results) = 1
    /\ LastResult.err = NoErr
    /\ NameOfLabel(LastResult.label) \in host0.mappers
    /\ ran = {"blkid", "stat"}

\* C5 as stated: a failure in resolving the label, obtaining the passphrase
\* (a plugin error response included), the unlock command or the visibility
\* check of attempt k < 9 is recorded as the last error and attempt k+1
\* follows.
C5_StepFailureIsRetried ==
    [][(/\ op = "Unlock"
        /\ status = "running"
        /\ pc \in UnlockStepPcs
        /\ attempt < 9
        /\ fault' # "") =>
            (/\ status' = "running"
             /\ pc' = "loop"
             /\ lastErr' # NoErr
             /\ errAt' = attempt
             /\ attempt' = attempt + 1)]_vars

\* C6: for each strategy, an Unlock that returns an error for a label has
\* made all 10 attempts, the tenth failed, and the error wraps the error of
\* that tenth attempt inside "failed after 10 attempts".
C6_ExhaustedWrapsLastError ==
    (op = "Unlock" /\ status = "returned" /\ ret # NoErr) =>
        /\ attempt = 10
        /\ errAt = 9
        /\ lastErr # NoErr
        /\ LastResult.err = Errorf("failed after 10 attempts", "", lastErr)
        /\ ret = Errorf("failed to unlock partition", partitionLabel, LastResult.err)

\* ten attempts were used and the tenth failed at the visibility check
C6_Witness ==
    /\ op = "Unlock"
    /\ status = "returned"
    /\ attempt = 10
    /\ lastErr = NewErr("partition unlocked but not visible")
    /\ ret # NoErr

\* C7: for each strategy, a label is reported as unlocked only (a) by the
\* check that finds its mapper device existing or (b) after the unlock command
\* of the attempt succeeded and the following `blkid -L` gave non-blank
\* output; blank output after a successful unlock command ends the attempt
\* with "partition unlocked but not visible" and the label is not reported.
C7_SuccessOnlyWhenUnlockedOrVisible ==
    /\ [][(/\ op = "Unlock"
           /\ Len(results') = Len(results) + 1
           /\ results'[Len(results')].err = NoErr) =>
               (\/ /\ pc = "locked"
                   /\ Exists(MapperPath(info), mappers)
                \/ /\ pc = "verify"
                   /\ ran \cap {"luksUnlock", "attach"} # {}
                   /\ fault = ""
                   /\ TrimSpace(checkPath') # << >>)]_vars
    /\ [][(/\ op = "Unlock"
           /\ pc = "verify"
           /\ TrimSpace(checkPath') = << >>) =>
               (/\ results' = results
                /\ lastErr' = NewErr("partition unlocked but not visible")
                /\ attempt' = attempt + 1
                /\ pc' = "loop")]_vars

\* a label was reported after the unlock command and a non-blank blkid
\* output, on an attempt that followed a failed one
C7_Witness ==
    /\ op = "Unlock"
    /\ pc = "range"
    /\ Len(results) >= 1
    /\ LastResult.err = NoErr
    /\ "blkid-verify" \in ran
    /\ TrimSpace(checkPath) # << >>
    /\ attempt >= 1

(***************************************************************************)
(* Properties of Encrypt and Unlock as batches.                            *)
(***************************************************************************)
\* the block devices of the labels partitions[1..n]
NamesUpTo(n) == {NameOfLabel(partitions[i]) : i \in 1..n}

AllOk(n) == \A i \in 1..n : results[i].err = NoErr

\* C8: Encrypt and Unlock of each strategy take the labels in list order, one
\* at a time; the first label that fails ends the call with an error that
\* names the label and wraps its error, and no device of a later label is
\* touched; the call returns nil only after every label succeeded.
C8_ListOrderFirstFailureAborts ==
    (op \in {"Encrypt", "Unlock"}) =>
        /\ Len(results) <= Len(partitions)
        /\ \A i \in 1..Len(results) : results[i].label = partitions[i]
        /\ AllOk(Len(results) - 1)
        /\ (status = "running") => (idx = Len(results) + 1 /\ AllOk(Len(results)))
        /\ (status = "returned" /\ ret = NoErr) =>
               (Len(results) = Len(partitions) /\ AllOk(Len(results)))
        /\ (status = "returned" /\ ret # NoErr) =>
               /\ idx = Len(results)
               /\ LastResult.err # NoErr
               /\ ret = Errorf(BatchMsg, partitions[idx], LastResult.err)
        /\ \A n \in PartNames \ NamesUpTo(IF idx <= Len(partitions) THEN idx ELSE Len(partitions)) :
               /\ dev[n] = host0.dev[n]
               /\ (n \in mappers) <=> (n \in host0.mappers)

\* Encrypt of two different labels ended at the first one
C8_Witness ==
    /\ op = "Encrypt"
    /\ status = "returned"
    /\ Len(partitions) = 2
    /\ partitions[1] # partitions[2]
    /\ Len(results) = 1
    /\ ret # NoErr
    /\ dev[NameOfLabel(partitions[1])].luks

(***************************************************************************)
(* Properties of Encrypt.                                                  *)
(***************************************************************************)
IsPrefix(s, t) == Len(s) <= Len(t) /\ \A i \in 1..Len(s) : s[i] = t[i]

\* the label has just been encrypted with success
LabelEncrypted ==
    /\ op = "Encrypt"
    /\ pc = "range"
    /\ done # << >>
    /\ LastResult.err = NoErr

\* C9: TPM with PCR policy encryption of a label runs, in this order, settle,
\* resolve, a 32-character random passphrase, unmount, createLUKS, sync, TPM
\* enrollment bound to the policy PCRs, format, wipe of the password slot;
\* each step runs only after the ones before it succeeded, and a label is
\* encrypted with success only once the password slot is wiped.
C9_TPMEncryptOrderAndWipe ==
    (op = "Encrypt" /\ e.name = TPMWithPCR) =>
        /\ IsPrefix(done, <<"settle", "find", "genpass", "unmount", "createLuks",
                            "sync", "enroll", "formatLuks", "wipe">>)
        /\ (Len(done) >= 3) =>
               (Len(pass) = 32 /\ \A i \in 1..Len(pass) : \E j \in 1..Len(Charset) : pass[i] = Charset[j])
        /\ (Len(done) >= 7) =>
               dev[info.PartitionName].tpm2 = PublicKeyPcrs(e.bindPublicPCRs)
        /\ LabelEncrypted =>
               /\ Len(done) = 9
               /\ ~dev[info.PartitionName].pwslot
               /\ dev[info.PartitionName].luks
               /\ dev[info.PartitionName].fs = LastResult.label

\* two labels were encrypted with the TPM policy and both slots are wiped
C9_Witness ==
    /\ op = "Encrypt" /\ e.name = TPMWithPCR
    /\ status = "returned" /\ ret = NoErr
    /\ Len(partitions) = 2
    /\ \A i \in 1..2 : ~dev[NameOfLabel(partitions[i])].pwslot
                       /\ dev[NameOfLabel(partitions[i])].tpm2 # << >>

\* C10: Remote KMS encryption of a label runs, in this order, settle, resolve,
\* the passphrase request to the plugin, unmount, createLUKS, format; each
\* step runs only after the ones before it succeeded, and createLUKS is never
\* run when the passphrase request failed or gave an empty passphrase.
C10_RemoteEncryptOrder ==
    (op = "Encrypt" /\ e.name = RemoteKMS) =>
        /\ IsPrefix(done, <<"settle", "find", "getpass", "unmount", "createLuks",
                            "formatLuks">>)
        /\ ("cryptsetup luksFormat" \in ran \/ pc = "createLuks") =>
               (fault = "" /\ pass # NoPass /\ "plugin" \in ran)
        /\ \A n \in PartNames :
               (dev[n].luks /\ dev[n] # host0.dev[n]) => dev[n].key # NoPass
        /\ LabelEncrypted =>
               /\ Len(done) = 6
               /\ dev[info.PartitionName].key = pass
               /\ dev[info.PartitionName].fs = LastResult.label

\* a label was encrypted with the passphrase of the plugin
C10_Witness ==
    /\ op = "Encrypt" /\ e.name = RemoteKMS
    /\ status = "returned" /\ ret = NoErr
    /\ Len(partitions) >= 1
    /\ dev[NameOfLabel(partitions[1])].key = PluginKey

\* C11: Local TPM NV encryption of a label first takes the passphrase from the
\* TPM store, addressed by the NV index of the config or by 0x1500000 when the
\* config gives none, and only then settle, resolve, unmount, createLUKS and
\* format; the container is created and formatted with that one passphrase and
\* its password slot is never wiped.
C11_LocalEncryptPassphraseFirst ==
    (op = "Encrypt" /\ e.name = LocalTPMNV) =>
        /\ IsPrefix(done, <<"tpmpass", "settle", "find", "unmount", "createLuks",
                            "formatLuks">>)
        /\ (done = << >>) => (ran \subseteq {"tpm"})
        /\ (Len(done) >= 1) =>
               /\ tpmArgs.nvIndex = IF e.kcryptConfig.isNil \/ e.kcryptConfig.NVIndex = ""
                                    THEN "0x1500000" ELSE e.kcryptConfig.NVIndex
               /\ tpmArgs.cIndex = IF e.kcryptConfig.isNil THEN "" ELSE e.kcryptConfig.CIndex
               /\ tpmArgs.tpmDevice = IF e.kcryptConfig.isNil THEN ""
                                      ELSE e.kcryptConfig.TPMDevice
               /\ nv.present
               /\ pass = DecryptBlob(nv)
        /\ (Len(done) >= 5) => dev[info.PartitionName].key = pass
        /\ "wipe-slot" \notin ran
        /\ LabelEncrypted =>
               /\ Len(done) = 6
               /\ dev[info.PartitionName].luks
               /\ dev[info.PartitionName].pwslot
               /\ dev[info.PartitionName].key = DecryptBlob(nv)
               /\ dev[info.PartitionName].fs = LastResult.label

\* two labels were encrypted with the passphrase kept at the default NV index
C11_Witness ==
    /\ op = "Encrypt" /\ e.name = LocalTPMNV
    /\ status = "returned" /\ ret = NoErr
    /\ Len(partitions) = 2 /\ partitions[1] # partitions[2]
    /\ e.kcryptConfig.NVIndex = ""
    /\ tpmArgs.nvIndex = "0x1500000"
    /\ \A n \in PartNames : dev[n].pwslot /\ dev[n].key = DecryptBlob(nv)

\* the values Encrypt hands to its caller: `Encrypt(partitions []string) error`
EncryptReturn == <<ret>>

\* the partition record that carries the label
RecordOfLabel(label) ==
    LET ps == Flatten(HostDisks) IN ps[FirstWithLabel(ps, label)]

\* C12 as stated: a successful Remote KMS Encrypt returns to its caller, for
\* each encrypted partition, the string label:name:uuid of the partition
\* record resolved before the LUKS container was created.
C12_EncryptReturnsPartitionStrings ==
    (op = "Encrypt" /\ e.name = RemoteKMS /\ status = "returned" /\ ret = NoErr) =>
        \A i \in 1..Len(partitions) :
            \E j \in 1..Len(EncryptReturn) :
                EncryptReturn[j] = Sprintf3(RecordOfLabel(partitions[i]).FilesystemLabel,
                                            RecordOfLabel(partitions[i]).Name,
                                            RecordOfLabel(partitions[i]).UUID)

(***************************************************************************)
(* The block-device resolver of ghw: GetDisks and the partition handlers.  *)
(* Names, paths and DM_UUID values are sequences of characters.  A tree t  *)
(* is what the resolver can read below its root:                           *)
(*   t.sysBlockOk, t.entries   os.ReadDir(<sys/block>)                     *)
(*   t.dir[n]                  os.ReadDir(<sys/block>/n): [ok, files]      *)
(*   t.holders[n]              os.ReadDir(<sys/block>/n/holders)           *)
(*   t.size[p], t.dev[p]       the size and dev files below the path p,    *)
(*                             p = <<disk>> or <<disk, partition>>         *)
(*   t.udev[id]                lines of <run/udev/data>/b<id>              *)
(*   t.mountsOk, t.mounts      lines of <proc/mounts>                      *)
(***************************************************************************)
sectorSize == 512
UNKNOWN == "unknown"

HasPrefix(s, prefix) ==
    Len(prefix) <= Len(s) /\ SubSeq(s, 1, Len(prefix)) = prefix

Contains(s, substr) ==
    \E i \in 1..(Len(s) - Len(substr) + 1) : SubSeq(s, i, i + Len(substr) - 1) = substr

SlashDev == <<"/", "d", "e", "v">>
SlashDevMapper == <<"/", "d", "e", "v", "/", "m", "a", "p", "p", "e", "r">>
DmPrefix == <<"d", "m", "-">>
LoopPrefix == <<"l", "o", "o", "p">>
Mpath == <<"m", "p", "a", "t", "h">>

\* filepath.Join(dir, name) for a clean dir and a plain name
Join(dir, name) == dir \o <<"/">> \o name

\* strconv.ParseUint(s, 10, 64): [ok, n]
ParseUint(s) ==
    IF s # << >> /\ (\A i \in 1..Len(s) : s[i] \in Digits)
    THEN [ok |-> TRUE, n |-> Atoi(s)]
    ELSE [ok |-> FALSE, n |-> 0]

\* the E:KEY=VALUE lines of a udev record as a map; a later line wins
ParseUdev(lines) ==
    LET es == {i \in 1..Len(lines) : lines[i].tag = "E:" /\ lines[i].eq}
        keys == {lines[i].key : i \in es}
    IN  [k \in keys |->
            lines[CHOOSE i \in es : lines[i].key = k
                                    /\ \A j \in es : lines[j].key = k => j <= i].val]

NoUdevInfo == [err |-> TRUE, info |-> << >>]

\* UdevInfo(paths, devNo): [err, info]
UdevInfo(t, devNo) ==
    LET udevID == TrimSpace(devNo)
    IN  IF udevID \notin DOMAIN t.udev THEN NoUdevInfo
        ELSE [err |-> FALSE, info |-> ParseUdev(t.udev[udevID])]

\* udevInfoPartition(paths, partitionPath)
udevInfoPartition(t, partitionPath) ==
    IF partitionPath \notin DOMAIN t.dev THEN NoUdevInfo
    ELSE UdevInfo(t, t.dev[partitionPath])

\* variant: every device-mapper device that has a DM_UUID is taken as multipath
isMultipathDevice_AnyUUID(t, name) ==
    /\ HasPrefix(name, DmPrefix)
    /\ LET u == udevInfoPartition(t, <<name>>)
       IN  ~u.err /\ "DM_UUID" \in DOMAIN u.info

isMultipathDevice(t, name) ==
    /\ HasPrefix(name, DmPrefix)
    /\ LET u == udevInfoPartition(t, <<name>>)
       IN  /\ ~u.err
           /\ "DM_UUID" \in DOMAIN u.info
           /\ Contains(u.info["DM_UUID"], Mpath)

isMultipathPartition(t, name) ==
    /\ isMultipathDevice(t, name)
    /\ LET u == udevInfoPartition(t, <<name>>)
       IN  ~u.err /\ "DM_PART" \in DOMAIN u.info

\* variant: the sector count is taken as the byte count
sizeBytes_Sectors(t, path) ==
    IF path \notin DOMAIN t.size THEN 0
    ELSE LET r == ParseUint(TrimSpace(t.size[path]))
         IN  IF r.ok THEN r.n ELSE 0

\* size file of a disk or partition: 512-byte sectors to bytes (the sector
\* counts of the trees below stay far under the 2^55 at which uint64 wraps)
sizeBytes(t, path) ==
    IF path \notin DOMAIN t.size THEN 0
    ELSE LET r == ParseUint(TrimSpace(t.size[path]))
         IN  IF r.ok THEN r.n * sectorSize ELSE 0

diskSizeBytes(t, disk) == sizeBytes(t, <<disk>>)
partitionSizeBytes(t, partitionPath) == sizeBytes(t, partitionPath)

\* the udev property `key` of the device below `path`, UNKNOWN when not there
udevProperty(t, path, key) ==
    LET u == udevInfoPartition(t, path)
    IN  IF u.err THEN UNKNOWN
        ELSE IF key \in DOMAIN u.info THEN u.info[key]
        ELSE UNKNOWN

diskUUID(t, path) == udevProperty(t, path, "ID_PART_TABLE_UUID")
diskPartUUID(t, path) == udevProperty(t, path, "ID_PART_ENTRY_UUID")
diskPartTypeUdev(t, path) == udevProperty(t, path, "ID_FS_TYPE")
diskFSLabel(t, path) == udevProperty(t, path, "ID_FS_LABEL")

\* the strings.NewReplacer of parseMountEntry; a mount point is a sequence
\* of pieces of text and octal escapes
Replace(mp) ==
    [i \in 1..Len(mp) |->
        CASE mp[i] = "\\011" -> "\t"
          [] mp[i] = "\\012" -> "\n"
          [] mp[i] = "\\040" -> " "
          [] mp[i] = "\\\\" -> "\\"
          [] OTHER -> mp[i]]

\* parseMountEntry: a line is the sequence of its fields, the first one a
\* sequence of characters; nil unless it starts with "/" and has 4 fields
parseMountEntry(line) ==
    IF line[1][1] # "/" \/ Len(line) < 4 THEN [isNil |-> TRUE]
    ELSE [isNil |-> FALSE, Partition |-> line[1], Mountpoint |-> Replace(line[2]),
          FilesystemType |-> line[3]]

\* partitionInfo(paths, part): mount point and filesystem type of the first
\* line of the mount table whose device is `part`
partitionInfo(t, part) ==
    LET p == IF ~HasPrefix(part, SlashDev) THEN Join(SlashDev, part) ELSE part
        hit == {i \in 1..Len(t.mounts) :
                   /\ ~parseMountEntry(t.mounts[i]).isNil
                   /\ parseMountEntry(t.mounts[i]).Partition = p}
    IN  IF ~t.mountsOk \/ hit = {} THEN [mp |-> << >>, pt |-> ""]
        ELSE LET i == CHOOSE i \in hit : \A j \in hit : i <= j
             IN  [mp |-> parseMountEntry(t.mounts[i]).Mountpoint,
                  pt |-> parseMountEntry(t.mounts[i]).FilesystemType]

MiB == 1024 * 1024

\* the Partition that DiskPartitionHandler.GetPartitions builds for fname
DiskPartition(t, DiskName, fname) ==
    LET partitionPath == <<DiskName, fname>>
        m == partitionInfo(t, fname)
    IN  [Name |-> fname,
         Size |-> partitionSizeBytes(t, partitionPath) \div MiB,
         MountPoint |-> m.mp,
         UUID |-> diskPartUUID(t, partitionPath),
         FilesystemLabel |-> diskFSLabel(t, partitionPath),
         FS |-> IF m.pt = "" THEN diskPartTypeUdev(t, partitionPath) ELSE m.pt,
         Path |-> Join(SlashDev, fname),
         Disk |-> Join(SlashDev, DiskName)]

RECURSIVE DiskPartitions(_, _, _)
DiskPartitions(t, DiskName, files) ==
    IF files = << >> THEN << >>
    ELSE IF ~HasPrefix(Head(files), DiskName)
    THEN DiskPartitions(t, DiskName, Tail(files))
    ELSE <<DiskPartition(t, DiskName, Head(files))>>
         \o DiskPartitions(t, DiskName, Tail(files))

\* variant: a partition whose dev file or udev record cannot be read empties
\* the list of its disk
DiskGetPartitions_EmptyOnFailure(t, DiskName) ==
    IF ~t.dir[DiskName].ok THEN << >>
    ELSE IF \E i \in 1..Len(t.dir[DiskName].files) :
                /\ HasPrefix(t.dir[DiskName].files[i], DiskName)
                /\ udevInfoPartition(t, <<DiskName, t.dir[DiskName].files[i]>>).err
    THEN << >>
    ELSE DiskPartitions(t, DiskName, t.dir[DiskName].files)

\* DiskPartitionHandler.GetPartitions
DiskGetPartitions(t, DiskName) ==
    IF ~t.dir[DiskName].ok THEN << >>
    ELSE DiskPartitions(t, DiskName, t.dir[DiskName].files)

\* variant: only the /dev/mapper/<DM_NAME> form is looked up
potentialMountNames_MapperOnly(mapperName, partName) ==
    <<Join(SlashDevMapper, mapperName)>>

potentialMountNames(mapperName, partName) ==
    <<Join(SlashDevMapper, mapperName), Join(SlashDev, partName)>>

\* `for _, mountName := range potentialMountNames`: the first name with a
\* mount point, else the result for the last name
RECURSIVE searchMount(_, _)
searchMount(t, names) ==
    LET m == partitionInfo(t, Head(names))
    IN  IF m.mp # << >> \/ Len(names) = 1 THEN m ELSE searchMount(t, Tail(names))

\* the Partition that MultipathPartitionHandler.GetPartitions builds
MultipathPartition(t, DiskName, partName) ==
    LET mapperName == udevInfoPartition(t, <<partName>>).info["DM_NAME"]
        m == searchMount(t, potentialMountNames(mapperName, partName))
    IN  [Name |-> partName,
         Size |-> partitionSizeBytes(t, <<partName>>) \div MiB,
         MountPoint |-> m.mp,
         UUID |-> diskPartUUID(t, <<partName>>),
         FilesystemLabel |-> diskFSLabel(t, <<partName>>),
         FS |-> IF m.pt = "" THEN diskPartTypeUdev(t, <<partName>>) ELSE m.pt,
         Path |-> Join(SlashDev, partName),
         Disk |-> Join(SlashDev, DiskName)]

\* the loop over the holders; `return out` on a udev error, `continue` when
\* the holder is no multipath partition or has no DM_NAME
RECURSIVE MultipathPartitions(_, _, _)
MultipathPartitions(t, DiskName, holders) ==
    IF holders = << >> THEN << >>
    ELSE LET partName == Head(holders)
             u == udevInfoPartition(t, <<partName>>)
         IN  IF ~isMultipathDevice(t, partName) \/ ~isMultipathPartition(t, partName)
             THEN MultipathPartitions(t, DiskName, Tail(holders))
             ELSE IF u.err THEN << >>
             ELSE IF "DM_NAME" \notin DOMAIN u.info
             THEN MultipathPartitions(t, DiskName, Tail(holders))
             ELSE <<MultipathPartition(t, DiskName, partName)>>
                  \o MultipathPartitions(t, DiskName, Tail(holders))

\* variant: the partitions of a multipath device are looked for among its
\* child directories
MultipathGetPartitions_Children(t, DiskName) == DiskGetPartitions(t, DiskName)

\* MultipathPartitionHandler.GetPartitions
MultipathGetPartitions(t, DiskName) ==
    IF ~t.holders[DiskName].ok THEN << >>
    ELSE MultipathPartitions(t, DiskName, t.holders[DiskName].files)

\* variant: multipath partitions are not skipped in the main enumeration
SkipEntry_LoopOnly(t, dname) ==
    HasPrefix(dname, LoopPrefix) /\ diskSizeBytes(t, dname) = 0

\* the two `continue` of the loop of GetDisks
SkipEntry(t, dname) ==
    \/ isMultipathPartition(t, dname)
    \/ HasPrefix(dname, LoopPrefix) /\ diskSizeBytes(t, dname) = 0

\* the Disk that GetDisks builds for the entry dname
DiskOf(t, dname) ==
    [Name |-> dname,
     SizeBytes |-> diskSizeBytes(t, dname),
     UUID |-> diskUUID(t, <<dname>>),
     Partitions |-> IF isMultipathDevice(t, dname)
                    THEN MultipathGetPartitions(t, dname)
                    ELSE DiskGetPartitions(t, dname)]

RECURSIVE DisksOf(_, _)
DisksOf(t, files) ==
    IF files = << >> THEN << >>
    ELSE IF SkipEntry(t, Head(files)) THEN DisksOf(t, Tail(files))
    ELSE <<DiskOf(t, Head(files))>> \o DisksOf(t, Tail(files))

\* GetDisks(paths, logger): nil when <sys/block> cannot be read
GetDisks(t) ==
    IF ~t.sysBlockOk THEN [isNil |-> TRUE, disks |-> << >>]
    ELSE [isNil |-> FALSE, disks |-> DisksOf(t, t.entries)]

(***************************************************************************)
(* Trees.  A tree is put together from the description of its sys-block    *)
(* entries: [name, hasSize, size, hasDev, devNo, hasUdev, udev, dirOk,     *)
(* children, others, holdersOk, holders]; a child has the first eight.     *)
(***************************************************************************)
Line(key, val) == [tag |-> "E:", key |-> key, eq |-> TRUE, val |-> val]

\* lines a udev record also holds and UdevInfo does not take
OtherLines ==
    << [tag |-> "S:", key |-> "disk/by-id", eq |-> FALSE, val |-> ""],
       [tag |-> "E:", key |-> "DEVTYPE", eq |-> FALSE, val |-> ""] >>

Node(name, size, devNo, udev) ==
    [name |-> name, hasSize |-> TRUE, size |-> size, hasDev |-> TRUE, devNo |-> devNo,
     hasUdev |-> TRUE, udev |-> udev]

Entry(node, children, holders) ==
    [node |-> node, dirOk |-> TRUE, children |-> children,
     others |-> << <<"s", "i", "z", "e">>, <<"q", "u", "e", "u", "e">> >>,
     holdersOk |-> TRUE, holders |-> holders]

NamesOf(nodes) == [i \in 1..Len(nodes) |-> nodes[i].name]

MkTree(es, mounts) ==
    LET I == 1..Len(es)
        names == {es[i].node.name : i \in I}
        at(n) == es[CHOOSE i \in I : es[i].node.name = n]
        paths == {<<es[i].node.name>> : i \in I}
                 \cup UNION {{<<es[i].node.name, es[i].children[j].name>> :
                                 j \in 1..Len(es[i].children)} : i \in I}
        nodeAt(p) ==
            IF Len(p) = 1 THEN at(p[1]).node
            ELSE LET cs == at(p[1]).children
                 IN  cs[CHOOSE j \in 1..Len(cs) : cs[j].name = p[2]]
        ids == {TrimSpace(nodeAt(p).devNo) : p \in {q \in paths : nodeAt(q).hasUdev}}
    IN  [sysBlockOk |-> TRUE,
         entries |-> [i \in I |-> es[i].node.name],
         dir |-> [n \in names |-> [ok |-> at(n).dirOk,
                                   files |-> at(n).others \o NamesOf(at(n).children)]],
         holders |-> [n \in names |-> [ok |-> at(n).holdersOk, files |-> at(n).holders]],
         size |-> [p \in {q \in paths : nodeAt(q).hasSize} |-> nodeAt(p).size],
         dev |-> [p \in {q \in paths : nodeAt(q).hasDev} |-> nodeAt(p).devNo],
         udev |-> [id \in ids |->
                      nodeAt(CHOOSE p \in paths :
                                 nodeAt(p).hasUdev /\ TrimSpace(nodeAt(p).devNo) = id).udev],
         mountsOk |-> TRUE,
         mounts |-> mounts]

\* a tree whose <sys/block> cannot be read
UnreadableTree == [MkTree(<< >>, << >>) EXCEPT !.sysBlockOk = FALSE]

\* lines of the mount table that name no block device
OtherMounts ==
    << << <<"p", "r", "o", "c">>, <<"/proc">>, "proc", "rw" >>,
       << <<"/", "d", "e", "v", "/", "x">>, <<"/x">>, "ext4" >> >>

MountLine(device, mp, fs) == << device, mp, fs, "rw" >>

(***************************************************************************)
(* The trees the enumeration is checked on.                                *)
(***************************************************************************)
MaxParts == 2

DigitChars == <<"1", "2", "3", "4">>
PartUUIDs == <<"uuid-1", "uuid-2", "uuid-3", "uuid-4">>
\* mount points as the mount table writes them, the second one "/mnt/my 2"
MountPoints == << <<"/mnt/1">>, <<"/mnt/my", "\\040", "2">>, <<"/mnt/3">>, <<"/mnt/4">> >>

sda == <<"s", "d", "a">>
loop0 == <<"l", "o", "o", "p", "0">>
Dm(k) == <<"d", "m", "-", k>>

\* what the udev record of a partition says about its label: no
\* ID_FS_LABEL line, or a line with this value
NoLabelLine == [has |-> FALSE, val |-> ""]
LabelLines == {NoLabelLine} \cup [has : {TRUE}, val : {""} \cup Labels]

PartDescs == [fs : {"ext4", "crypto_LUKS"}, label : LabelLines, mounted : BOOLEAN]

LabelLine(l) == IF l.has THEN <<Line("ID_FS_LABEL", l.val)>> ELSE << >>

\* partition i of `disk`: 4096 sectors, block device 8:i
RegularPartition(disk, i, d) ==
    Node(disk \o <<DigitChars[i]>>, <<"4", "0", "9", "6", "\n">>,
         <<"8", ":", DigitChars[i], "\n">>,
         OtherLines \o <<Line("ID_FS_TYPE", d.fs), Line("ID_PART_ENTRY_UUID", PartUUIDs[i])>>
             \o LabelLine(d.label))

RegularMounts(disk, parts) ==
    LET S == {i \in 1..Len(parts) : parts[i].mounted}
        RECURSIVE lines(_)
        lines(i) ==
            IF i > Len(parts) THEN << >>
            ELSE (IF i \in S
                  THEN <<MountLine(Join(SlashDev, disk \o <<DigitChars[i]>>),
                                   MountPoints[i], "xfs")>>
                  ELSE << >>) \o lines(i + 1)
    IN  lines(1)

\* content of the size file of the disk: two sector counts, or no number
DiskSizes == {<<"1", "0", "2", "4", "\n">>, <<"2", "0", "4", "8">>, <<"x">>}

\* loop0: not there, there and unused (0 sectors), there and in use
Loops == {"none", "unused", "used"}

LoopEntries(loop) ==
    IF loop = "none" THEN << >>
    ELSE <<Entry([Node(loop0, IF loop = "unused" THEN <<"0", "\n">> ELSE <<"8", "\n">>,
                       <<"7", ":", "0", "\n">>, << >>) EXCEPT !.hasUdev = FALSE],
                 << >>, << >>)>>

\* one disk sda with the partitions `parts`, and loop0
RegularTree(parts, size, loop) ==
    MkTree(LoopEntries(loop)
             \o <<Entry(Node(sda, size, <<"8", ":", "0", "\n">>,
                             OtherLines \o <<Line("ID_PART_TABLE_UUID", "pt-sda")>>),
                        [i \in 1..Len(parts) |-> RegularPartition(sda, i, parts[i])],
                        << >>)>>,
           OtherMounts \o RegularMounts(sda, parts))

EmptyTree == MkTree(<< >>, << >>)

\* no entry; sda with every list of up to maxParts partitions, next to an
\* unused loop0; sda with one partition, every size file and every loop0
RegularTrees(maxParts) ==
    {EmptyTree}
    \cup {RegularTree(parts, <<"1", "0", "2", "4", "\n">>, "unused") :
             parts \in SeqsUpTo(PartDescs, maxParts)}
    \cup {RegularTree(<<[fs |-> "ext4", label |-> NoLabelLine, mounted |-> TRUE]>>, size, loop) :
             size \in DiskSizes, loop \in Loops}

(***************************************************************************)
(* Trees with device-mapper devices: up to MaxParents devices dm-1, dm-2,  *)
(* ... that may list dm-9 under holders/, and dm-9 itself.                 *)
(***************************************************************************)
MaxParents == 2

MpathUUID == <<"m", "p", "a", "t", "h", "-", "3", "6">>
PartMpathUUID == <<"p", "a", "r", "t", "1", "-">> \o MpathUUID
CryptUUID == <<"C", "R", "Y", "P", "T", "-", "L", "U", "K", "S", "2">>
PartCryptUUID == <<"p", "a", "r", "t", "1", "-">> \o CryptUUID

dm9 == Dm("9")
DmName == <<"m", "p", "a", "1">>

\* the udev record of a device-mapper device: not readable, or readable
\* with or without a DM_UUID, a DM_PART and a DM_NAME line
UnreadableUdev == [readable |-> FALSE, uuid |-> << >>, part |-> FALSE, name |-> FALSE]

DmUdevs(uuids, parts, names) ==
    {UnreadableUdev}
    \cup [readable : {TRUE}, uuid : {<< >>} \cup uuids, part : parts, name : names]

DmLines(u) ==
    (IF u.uuid # << >> THEN <<Line("DM_UUID", u.uuid)>> ELSE << >>)
    \o OtherLines
    \o (IF u.part THEN <<Line("DM_PART", "1")>> ELSE << >>)
    \o (IF u.name THEN <<Line("DM_NAME", DmName)>> ELSE << >>)

DmNode(k, size, u, extra) ==
    [Node(Dm(k), size, <<"2", "5", "3", ":", k, "\n">>, DmLines(u) \o extra)
        EXCEPT !.hasUdev = u.readable]

\* holders/ of a parent: not readable, empty, or listing dm-9
Holders == {"unreadable", "empty", "dm9"}

\* a multipath device or a LUKS mapper with every holders/, and devices
\* without udev record or without DM_UUID that list dm-9
ParentDescs ==
    {d \in [udev : DmUdevs({MpathUUID, CryptUUID}, {FALSE}, {FALSE}), holders : Holders] :
        d.udev.uuid = << >> => d.holders = "dm9"}

ParentEntry(i, d) ==
    [Entry(DmNode(DigitChars[i], <<"2", "0", "4", "8", "\n">>, d.udev,
                  <<Line("ID_PART_TABLE_UUID", "pt-dm")>>),
           << >>,
           IF d.holders = "dm9" THEN <<dm9>> ELSE << >>)
        EXCEPT !.holdersOk = (d.holders # "unreadable")]

\* where the mount table lists dm-9
DmMounted == {"none", "mapper", "dev", "both"}

\* every udev record of dm-9, and every mount of it when the record is that
\* of a multipath partition
DmPartDescs ==
    {d \in [udev : DmUdevs({PartMpathUUID, PartCryptUUID}, BOOLEAN, BOOLEAN),
            mounted : DmMounted] :
        (d.udev.uuid = PartMpathUUID /\ d.udev.part /\ d.udev.name) \/ d.mounted = "none"}

DmPartEntry(d) ==
    Entry(DmNode("9", <<"4", "0", "9", "6", "\n">>, d.udev,
                 <<Line("ID_FS_TYPE", "ext4"), Line("ID_FS_LABEL", "COS_OEM"),
                   Line("ID_PART_ENTRY_UUID", PartUUIDs[1])>>),
          << >>, << >>)

DmMounts(mounted) ==
    (IF mounted \in {"dev", "both"}
     THEN <<MountLine(Join(SlashDev, dm9), MountPoints[2], "btrfs")>> ELSE << >>)
    \o (IF mounted \in {"mapper", "both"}
        THEN <<MountLine(Join(SlashDevMapper, DmName), MountPoints[1], "xfs")>> ELSE << >>)

DmTree(parents, part) ==
    MkTree([i \in 1..Len(parents) |-> ParentEntry(i, parents[i])] \o <<DmPartEntry(part)>>,
           OtherMounts \o DmMounts(part.mounted))

DmTrees(maxParents) ==
    {DmTree(parents, part) : parents \in SeqsUpTo(ParentDescs, maxParents), part \in DmPartDescs}

(***************************************************************************)
(* Trees with a read failure below sda, next to a loop0 in use: the        *)
(* directory of sda, or the dev file or the udev record of partition i.    *)
(***************************************************************************)
FailKinds == {"dir", "dev", "udev"}

FailingPartition(i, d, kind) ==
    [RegularPartition(sda, i, d) EXCEPT !.hasDev = (kind # "dev"),
                                        !.hasUdev = (kind # "udev")]

\* os.ReadDir on a directory that cannot be opened gives an error and no entry
FailingTree(parts, kind, at) ==
    LET t == MkTree(LoopEntries("used")
                      \o <<Entry(Node(sda, <<"1", "0", "2", "4", "\n">>,
                                      <<"8", ":", "0", "\n">>,
                                      OtherLines \o <<Line("ID_PART_TABLE_UUID", "pt-sda")>>),
                                 [i \in 1..Len(parts) |->
                                     IF i = at THEN FailingPartition(i, parts[i], kind)
                                     ELSE RegularPartition(sda, i, parts[i])],
                                 << >>)>>,
                    OtherMounts \o RegularMounts(sda, parts))
    IN  IF kind = "dir" THEN [t EXCEPT !.dir[sda] = [ok |-> FALSE, files |-> << >>]]
        ELSE t

FailingTrees(maxParts) ==
    {FailingTree(parts, kind, at) :
        parts \in {ps \in SeqsUpTo(PartDescs, maxParts) : Len(ps) = maxParts},
        kind \in FailKinds, at \in 1..maxParts}

(***************************************************************************)
(* One run of GetDisks on a tree.                                          *)
(***************************************************************************)
GhwTrees(maxParts, maxParents) ==
    {UnreadableTree} \cup RegularTrees(maxParts) \cup FailingTrees(maxParts)
        \cup DmTrees(maxParents)

InitGhw ==
    /\ SelectorIdle /\ OpsIdle /\ FindIdle /\ UaIdle /\ CfgIdle
    /\ tree \in GhwTrees(MaxParts, MaxParents)
    /\ enumPc = "start"
    /\ enumerated = << >>

Enumerate ==
    /\ enumPc = "start"
    /\ enumerated' = GetDisks(tree)
    /\ enumPc' = "done"
    /\ UNCHANGED <<tree, selVars, opsVars, findVars, uaVars, cfgVars>>

NextGhw == Enumerate

SpecGhw == InitGhw /\ [][NextGhw]_vars

(***************************************************************************)
(* What a tree records, read off the tree itself.                          *)
(***************************************************************************)
HasSectors(t, path) ==
    path \in DOMAIN t.size /\ ParseUint(TrimSpace(t.size[path])).ok

Sectors(t, path) == IF HasSectors(t, path) THEN ParseUint(TrimSpace(t.size[path])).n ELSE 0

\* the udev record of the device below `path`, << >> when there is none
Recorded(t, path) ==
    IF path \in DOMAIN t.dev /\ TrimSpace(t.dev[path]) \in DOMAIN t.udev
    THEN ParseUdev(t.udev[TrimSpace(t.dev[path])])
    ELSE << >>

\* the lines of the mount table for `device`
MountsOf(t, device) ==
    {i \in 1..Len(t.mounts) : Len(t.mounts[i]) >= 4 /\ t.mounts[i][1] = device}

RegularOnly(t) ==
    t.sysBlockOk /\ \A i \in 1..Len(t.entries) : ~HasPrefix(t.entries[i], DmPrefix)

UnusedLoop(t, n) == HasPrefix(n, LoopPrefix) /\ Sectors(t, <<n>>) = 0

Kept(t) == SelectSeq(t.entries, LAMBDA n : ~UnusedLoop(t, n))

Children(t, n) == SelectSeq(t.dir[n].files, LAMBDA f : HasPrefix(f, n))

\* the partition p carries what the tree records for the child c of disk n
Carries(t, n, c, p) ==
    LET rec == Recorded(t, <<n, c>>)
        ms == MountsOf(t, Join(SlashDev, c))
    IN  /\ p.Name = c
        /\ "ID_FS_LABEL" \in DOMAIN rec => p.FilesystemLabel = rec["ID_FS_LABEL"]
        /\ "ID_PART_ENTRY_UUID" \in DOMAIN rec => p.UUID = rec["ID_PART_ENTRY_UUID"]
        /\ IF ms = {}
           THEN /\ p.MountPoint = << >>
                /\ "ID_FS_TYPE" \in DOMAIN rec => p.FS = rec["ID_FS_TYPE"]
           ELSE \E i \in ms : p.MountPoint = Replace(t.mounts[i][2]) /\ p.FS = t.mounts[i][3]

\* C19: on a tree of regular disks only GetDisks returns one disk per entry
\* that is not an unused loop device, in order, with SizeBytes = sectors * 512,
\* and each disk lists one partition per child whose name begins with the
\* disk name, carrying the recorded label, type, UUID and mount point; no
\* entries, no disks
C19_RegularTreeEnumerated ==
    (enumPc = "done" /\ RegularOnly(tree)) =>
        LET ds == enumerated.disks
            kept == Kept(tree)
        IN  /\ ~enumerated.isNil
            /\ Len(ds) = Len(kept)
            /\ tree.entries = << >> => ds = << >>
            /\ \A i \in 1..Len(ds) :
                  LET cs == Children(tree, kept[i])
                  IN  /\ ds[i].Name = kept[i]
                      /\ HasSectors(tree, <<kept[i]>>)
                            => ds[i].SizeBytes = Sectors(tree, <<kept[i]>>) * 512
                      /\ Len(ds[i].Partitions) = Len(cs)
                      /\ \A j \in 1..Len(cs) :
                            Carries(tree, kept[i], cs[j], ds[i].Partitions[j])

C19_Witness ==
    /\ enumPc = "done"
    /\ RegularOnly(tree)
    /\ Len(tree.entries) = 2
    /\ Len(enumerated.disks) = 1
    /\ enumerated.disks[1].SizeBytes = 1024 * 512
    /\ Len(enumerated.disks[1].Partitions) = 2
    /\ enumerated.disks[1].Partitions[1].MountPoint = <<"/mnt/1">>
    /\ enumerated.disks[1].Partitions[2].MountPoint = <<"/mnt/my", " ", "2">>
    /\ enumerated.disks[1].Partitions[2].FilesystemLabel = "COS_PERSISTENT"

\* the udev record of the entry n has a DM_UUID that contains "mpath"
MpathRecorded(t, n) ==
    LET rec == Recorded(t, <<n>>)
    IN  "DM_UUID" \in DOMAIN rec /\ Contains(rec["DM_UUID"], Mpath)

\* the udev record of the entry n has a DM_UUID without "mpath" in it
OtherMapperRecorded(t, n) ==
    LET rec == Recorded(t, <<n>>)
    IN  "DM_UUID" \in DOMAIN rec /\ ~Contains(rec["DM_UUID"], Mpath)

DiskNamed(ds, n) == {k \in 1..Len(ds) : ds[k].Name = n}

\* C17: multipath device iff dm- name and a DM_UUID containing mpath;
\* multipath partition iff, in addition, a DM_PART key; a dm- device whose
\* DM_UUID has no mpath is emitted as a disk with the partitions of a
\* regular disk (its child directories, not its holders)
C17_MultipathClassification ==
    enumPc = "done" =>
        \A i \in 1..Len(tree.entries) :
            LET n == tree.entries[i]
                dmName == HasPrefix(n, DmPrefix)
            IN  /\ isMultipathDevice(tree, n) <=> (dmName /\ MpathRecorded(tree, n))
                /\ isMultipathPartition(tree, n)
                      <=> (/\ dmName
                           /\ MpathRecorded(tree, n)
                           /\ "DM_PART" \in DOMAIN Recorded(tree, <<n>>))
                /\ (dmName /\ OtherMapperRecorded(tree, n)) =>
                      /\ Cardinality(DiskNamed(enumerated.disks, n)) = 1
                      /\ \A k \in DiskNamed(enumerated.disks, n) :
                            [j \in 1..Len(enumerated.disks[k].Partitions) |->
                                enumerated.disks[k].Partitions[j].Name] = Children(tree, n)

\* a LUKS mapper that lists a multipath partition under holders/ is emitted
\* as a disk without partitions, next to a multipath device that has it
C17_Witness ==
    /\ enumPc = "done"
    /\ \E i, j \in 1..Len(tree.entries) :
          /\ OtherMapperRecorded(tree, tree.entries[i])
          /\ tree.holders[tree.entries[i]].files = <<dm9>>
          /\ isMultipathDevice(tree, tree.entries[j])
          /\ ~isMultipathPartition(tree, tree.entries[j])
    /\ isMultipathPartition(tree, dm9)
    /\ \E k \in 1..Len(enumerated.disks) : Len(enumerated.disks[k].Partitions) = 1

EmittedAsDisk(n) == DiskNamed(enumerated.disks, n) # {}

Range(s) == {s[i] : i \in 1..Len(s)}

MultipathPartitionEntries(t) ==
    {n \in Range(t.entries) :
        /\ HasPrefix(n, DmPrefix)
        /\ MpathRecorded(t, n)
        /\ "DM_PART" \in DOMAIN Recorded(t, <<n>>)}

\* positions of the emitted disks that are multipath devices and list n
\* under holders/
ListingParents(t, ds, n) ==
    {k \in 1..Len(ds) :
        /\ HasPrefix(ds[k].Name, DmPrefix)
        /\ MpathRecorded(t, ds[k].Name)
        /\ t.holders[ds[k].Name].ok
        /\ n \in Range(t.holders[ds[k].Name].files)}

\* positions of n in the partition list of disk k
Occurrences(ds, k, n) ==
    {j \in 1..Len(ds[k].Partitions) : ds[k].Partitions[j].Name = n}

\* C16 as stated: every multipath partition is in the partition list of
\* exactly one disk, a multipath device that lists it under holders/
C16_AttributedToExactlyOneParent ==
    enumPc = "done" =>
        \A n \in MultipathPartitionEntries(tree) :
            LET ds == enumerated.disks
                at == {k \in 1..Len(ds) : Occurrences(ds, k, n) # {}}
            IN  /\ Cardinality(at) = 1
                /\ at \subseteq ListingParents(tree, ds, n)
                /\ \A k \in at : Cardinality(Occurrences(ds, k, n)) = 1

\* C16: a multipath partition is once in the partition list of every emitted
\* multipath device that lists it under holders/, provided its udev record
\* has a DM_NAME, and in no other list: in exactly one list when exactly one
\* parent lists it, in none when no parent lists it or DM_NAME is missing
C16_AttachedToListingParents ==
    enumPc = "done" =>
        \A n \in MultipathPartitionEntries(tree) :
            LET ds == enumerated.disks
                named == "DM_NAME" \in DOMAIN Recorded(tree, <<n>>)
                parents == ListingParents(tree, ds, n)
            IN  \A k \in 1..Len(ds) :
                    /\ Cardinality(Occurrences(ds, k, n))
                          = IF named /\ k \in parents THEN 1 ELSE 0
                    /\ \A j \in Occurrences(ds, k, n) :
                          ds[k].Partitions[j].Disk = Join(SlashDev, ds[k].Name)

\* two multipath devices, one of them lists dm-9 and has it as its partition
C16_Witness ==
    /\ enumPc = "done"
    /\ dm9 \in MultipathPartitionEntries(tree)
    /\ Len(enumerated.disks) = 2
    /\ Cardinality(ListingParents(tree, enumerated.disks, dm9)) = 1
    /\ \A k \in 1..2 : MpathRecorded(tree, enumerated.disks[k].Name)
    /\ \E k \in 1..2 : Occurrences(enumerated.disks, k, dm9) # {}

\* the multipath partitions attached to some disk of the result
AttachedMultipath ==
    {p \in UNION {Range(enumerated.disks[k].Partitions) : k \in 1..Len(enumerated.disks)} :
        p.Name \in MultipathPartitionEntries(tree)}

FirstMount(t, device) ==
    t.mounts[CHOOSE i \in MountsOf(t, device) : \A j \in MountsOf(t, device) : i <= j]

\* C20: the mount point and type of a multipath partition come from the
\* mount table line for /dev/mapper/<DM_NAME> when there is one, else from
\* the line for /dev/<name> when there is one, else there is no mount point
C20_MountLookedUpUnderBothNames ==
    enumPc = "done" =>
        \A p \in AttachedMultipath :
            LET rec == Recorded(tree, <<p.Name>>)
                mapper == Join(SlashDevMapper, rec["DM_NAME"])
                device == Join(SlashDev, p.Name)
            IN  IF MountsOf(tree, mapper) # {}
                THEN /\ p.MountPoint = Replace(FirstMount(tree, mapper)[2])
                     /\ p.FS = FirstMount(tree, mapper)[3]
                ELSE IF MountsOf(tree, device) # {}
                THEN /\ p.MountPoint = Replace(FirstMount(tree, device)[2])
                     /\ p.FS = FirstMount(tree, device)[3]
                ELSE /\ p.MountPoint = << >>
                     /\ p.FS = rec["ID_FS_TYPE"]

\* dm-9 is mounted as /dev/dm-9 only and its mount point is found
C20_Witness ==
    /\ enumPc = "done"
    /\ \E p \in AttachedMultipath :
          /\ p.Name = dm9
          /\ MountsOf(tree, Join(SlashDevMapper, DmName)) = {}
          /\ MountsOf(tree, Join(SlashDev, dm9)) # {}
          /\ p.MountPoint = <<"/mnt/my", " ", "2">>
          /\ p.FS = "btrfs"

(***************************************************************************)
(* UnlockAllEncryptedPartitions: GetEncryptor, findEncryptedPartitions,    *)
(* encryptor.Unlock.                                                       *)
(***************************************************************************)
CryptoLUKS == "crypto_LUKS"

\* findEncryptedPartitions: [labels, err], labels nil on error
findEncryptedPartitions(t, ms) ==
    LET ds == GetDisks(t)
        ps == Flatten([k \in 1..Len(ds.disks) |-> ds.disks[k].Partitions])
        locked == SelectSeq(ps, LAMBDA p : /\ p.FS = CryptoLUKS
                                           /\ ~Exists(MapperPathOf(p.Name), ms)
                                           /\ p.FilesystemLabel # "")
    IN  IF ds.isNil
        THEN [labels |-> [isNil |-> TRUE, labels |-> << >>],
              err |-> NewErr("failed to scan block devices")]
        ELSE [labels |-> [isNil |-> locked = << >>,
                          labels |-> [i \in 1..Len(locked) |-> locked[i].FilesystemLabel]],
              err |-> NoErr]

\* the hosts of unlock-all: one disk of LUKS or ext4 partitions, not mounted
UaPartDescs == {d \in PartDescs : ~d.mounted}

UaTrees(maxParts) ==
    {UnreadableTree}
    \cup {RegularTree(parts, <<"2", "0", "4", "8">>, "none") :
             parts \in SeqsUpTo(UaPartDescs, maxParts)}

UaConfigs == {c \in KcryptConfigs : c.isNil \/ (c.ChallengerServer # "" /\ ~c.MDNS)}

UaSystemctlRuns ==
    {[out |-> <<"2", "5", "2", "\n">>, err |-> FALSE],
     [out |-> <<"2", "5", "1", "\n">>, err |-> FALSE],
     [out |-> << >>, err |-> TRUE]}

\* what encryptor.Unlock(partitions) returns
UnlockRuns == {NoErr, NewErr("failed to unlock partition")}

PartitionNames(t) ==
    UNION {{f \in Range(t.dir[n].files) : HasPrefix(f, n)} : n \in Range(t.entries)}

InitUnlockAll ==
    /\ kcryptConfig \in UaConfigs
    /\ isUKI \in BOOLEAN
    /\ systemctl \in UaSystemctlRuns
    /\ tpmrm0 \in BOOLEAN
    /\ selPc = "scan"
    /\ encryptor = Nil
    /\ selRet = [enc |-> Nil, err |-> NoErr]
    /\ OpsIdle /\ FindIdle /\ CfgIdle
    /\ tree \in UaTrees(MaxParts)
    /\ enumPc = "idle"
    /\ enumerated = << >>
    /\ devMapper \in SUBSET PartitionNames(tree)
    /\ unlockRun \in UnlockRuns
    /\ uaPc = "encryptor"
    /\ uaLabels = [isNil |-> TRUE, labels |-> << >>]
    /\ uaCalled = FALSE
    /\ uaRet = NoErr

\* encryptor, err := GetEncryptor(logger); if err != nil { return err }
UaGetEncryptor ==
    /\ uaPc = "encryptor"
    /\ selPc = "returned"
    /\ IF selRet.err # NoErr
       THEN uaRet' = selRet.err /\ uaPc' = "returned"
       ELSE uaRet' = uaRet /\ uaPc' = "scan"
    /\ UNCHANGED <<devMapper, unlockRun, uaLabels, uaCalled>>
    /\ UNCHANGED <<selVars, opsVars, ghwVars, findVars, cfgVars>>

\* partitions, err := findEncryptedPartitions(logger), and the return of
\* success when there is nothing to unlock
UaFind ==
    /\ uaPc = "scan"
    /\ LET r == findEncryptedPartitions(tree, devMapper)
       IN  /\ uaLabels' = r.labels
           /\ IF r.err # NoErr THEN uaRet' = r.err /\ uaPc' = "returned"
              ELSE IF Len(r.labels.labels) = 0 THEN uaRet' = NoErr /\ uaPc' = "returned"
              ELSE uaRet' = uaRet /\ uaPc' = "unlock"
    /\ UNCHANGED <<devMapper, unlockRun, uaCalled>>
    /\ UNCHANGED <<selVars, opsVars, ghwVars, findVars, cfgVars>>

\* err = encryptor.Unlock(partitions); return err
UaUnlock ==
    /\ uaPc = "unlock"
    /\ uaCalled' = TRUE
    /\ uaRet' = unlockRun
    /\ uaPc' = "returned"
    /\ UNCHANGED <<devMapper, unlockRun, uaLabels>>
    /\ UNCHANGED <<selVars, opsVars, ghwVars, findVars, cfgVars>>

NextUnlockAll ==
    \/ GetEncryptorChoose
    \/ GetEncryptorValidate
    \/ UaGetEncryptor
    \/ UaFind
    \/ UaUnlock

SpecUnlockAll == InitUnlockAll /\ [][NextUnlockAll]_vars

\* the child directories of the disks of t, in enumeration order, as paths
RECURSIVE PartitionPaths(_, _)
PartitionPaths(t, names) ==
    IF names = << >> THEN << >>
    ELSE LET cs == Children(t, Head(names))
         IN  [j \in 1..Len(cs) |-> <<Head(names), cs[j]>>] \o PartitionPaths(t, Tail(names))

\* the partitions of the tree whose type is crypto_LUKS and that have no
\* /dev/mapper/<name>
LockedLuks(t, ms) ==
    SelectSeq(PartitionPaths(t, t.entries),
              LAMBDA p : LET rec == Recorded(t, p)
                         IN  /\ "ID_FS_TYPE" \in DOMAIN rec
                             /\ rec["ID_FS_TYPE"] = CryptoLUKS
                             /\ p[2] \notin ms)

HasLabel(t, p) ==
    "ID_FS_LABEL" \in DOMAIN Recorded(t, p) /\ Recorded(t, p)["ID_FS_LABEL"] # ""

LabelsOf(t, ps) == [i \in 1..Len(ps) |-> Recorded(t, ps[i])["ID_FS_LABEL"]]

UaScanned == uaPc = "unlock" \/ (uaPc = "returned" /\ selRet.err = NoErr)

\* C13 as stated: the list handed to the strategy holds exactly the labels
\* of the locked crypto_LUKS partitions that have a label, nothing for a
\* partition without filesystem label
C13_OnlyLabelsOfLockedLuks ==
    (UaScanned /\ tree.sysBlockOk) =>
        uaLabels.labels
            = LabelsOf(tree, SelectSeq(LockedLuks(tree, devMapper),
                                       LAMBDA p : HasLabel(tree, p)))

\* C14 as stated: with no locked encrypted partition on the host unlock-all
\* returns success, whatever the prerequisites of the strategy
C14_NothingToUnlockIsSuccess ==
    (uaPc = "returned" /\ tree.sysBlockOk /\ LockedLuks(tree, devMapper) = << >>)
        => uaRet = NoErr

(***************************************************************************)
(* findPartitionByLabel and findPartition against one enumeration, with    *)
(* blkid as a view of its own.                                             *)
(***************************************************************************)
MaxListed == 3

ListedNames == <<"sda1", "sda2", "sdb1", "sdb2">>
ListedUUIDs == <<"uuid-a", "uuid-b", "uuid-c", "uuid-d">>

\* the enumeration in which partition i carries the label ls[i]: the first
\* two partitions on one disk, the others on a second one
ListingOf(ls) ==
    LET rec(i) == [Name |-> ListedNames[i], FilesystemLabel |-> ls[i], UUID |-> ListedUUIDs[i]]
        first == [i \in 1..(IF Len(ls) < 2 THEN Len(ls) ELSE 2) |-> rec(i)]
        second == [i \in 1..(IF Len(ls) < 2 THEN 0 ELSE Len(ls) - 2) |-> rec(i + 2)]
    IN  IF Len(ls) = 0 THEN << >>
        ELSE IF Len(ls) <= 2 THEN <<first>>
        ELSE <<first, second>>

Listings == {ListingOf(ls) : ls \in SeqsUpTo(Labels \cup {""}, MaxListed)}

\* utils.SH("blkid -L <label>") on any block layer: an error, no output,
\* the /dev path of a partition or the /dev/mapper path of an opened one
AnyBlkidRuns ==
    {[out |-> << >>, err |-> TRUE],
     [out |-> <<"\n">>, err |-> FALSE]}
    \cup {[out |-> DevPath(ListedNames[i]) \o <<"\n">>, err |-> FALSE] : i \in 1..MaxListed}
    \cup {[out |-> MapperPathOf(ListedNames[i]) \o <<"\n">>, err |-> FALSE] : i \in 1..MaxListed}

InitFind ==
    /\ SelectorIdle /\ OpsIdle /\ GhwIdle /\ UaIdle /\ CfgIdle
    /\ listing \in Listings
    /\ blkid \in AnyBlkidRuns
    /\ target \in 1..Len(Flatten(listing))
    /\ found = [info |-> NilInfo, err |-> NoErr]
    /\ inList = [info |-> NilInfo, err |-> NoErr]
    /\ findPc = "start"

\* the record the enumeration returned at position `target`
Target == Flatten(listing)[target]

Resolve ==
    /\ findPc = "start"
    /\ found' = findPartitionByLabel(Target.FilesystemLabel, blkid,
                                     [Disks |-> listing, err |-> FALSE])
    /\ inList' = findPartition(Target.FilesystemLabel, [Disks |-> listing, err |-> FALSE])
    /\ findPc' = "done"
    /\ UNCHANGED <<listing, blkid, target>>
    /\ UNCHANGED <<selVars, opsVars, ghwVars, uaVars, cfgVars>>

NextFind == Resolve

SpecFind == InitFind /\ [][NextFind]_vars

SameAsTarget(r) ==
    /\ r.info.PartitionName = Target.Name
    /\ r.info.DevicePath = DevPath(Target.Name)

LabelIsUnique ==
    \A i \in 1..Len(Flatten(listing)) :
        Flatten(listing)[i].FilesystemLabel = Target.FilesystemLabel => i = target

NilValue == [kind |-> "nil"]
StringValue(s) == [kind |-> "string", s |-> s]
IntValue(s) == [kind |-> "int", s |-> s]
BoolValue(s) == [kind |-> "bool", s |-> s]
Float64Value(s) == [kind |-> "float64", s |-> s]
Slice(items) == [kind |-> "slice", items |-> items]
ConfigValues(m) == [kind |-> "map", m |-> m]

EmptyMap == [k \in {} |-> NilValue]

IsScalar(v) == v.kind \in {"string", "int", "bool", "float64"}

\* reflect.Type.StringValue() of the value
TypeString(v) ==
    CASE v.kind = "slice" -> "[]interface {}"
      [] v.kind = "map" -> "collector.ConfigValues"
      [] OTHER -> v.kind

\* reflect.Zero(typeA).Interface() of a scalar type
Zero(v) ==
    CASE v.kind = "string" -> StringValue("")
      [] v.kind = "int" -> IntValue("0")
      [] v.kind = "bool" -> BoolValue("false")
      [] OTHER -> Float64Value("0")

\* what a call returns: the value, the error, or a run-time panic
Merged(v) == [val |-> v, err |-> NoErr, panic |-> FALSE]
MergePanic == [val |-> NilValue, err |-> NoErr, panic |-> TRUE]

\* vA == vB on two interface{} values panics when both hold the same
\* uncomparable type
Uncomparable(vA, vB) == vA.kind = vB.kind /\ vA.kind \in {"slice", "map"}

\* the append loop of mergeSlices: sliceA grows while sliceB is walked, and
\* every item of sliceA is compared with vB (the inner loop has no break)
RECURSIVE appendMissing(_, _)
appendMissing(sliceA, sliceB) ==
    IF sliceB = << >> THEN Merged(Slice(sliceA))
    ELSE LET vB == Head(sliceB)
         IN  IF \E i \in 1..Len(sliceA) : Uncomparable(sliceA[i], vB)
             THEN MergePanic
             ELSE IF \E i \in 1..Len(sliceA) : sliceA[i] = vB
                  THEN appendMissing(sliceA, Tail(sliceB))
                  ELSE appendMissing(Append(sliceA, vB), Tail(sliceB))

mergeSlices(sliceA, sliceB) ==
    IF Len(sliceA) = 0 THEN Merged(Slice(sliceB))
    ELSE IF sliceA[1].kind = "map"
         THEN Merged(Slice(sliceA \o sliceB))
         ELSE appendMissing(sliceA, sliceB)

\* the keys of b in the order `range b` visits them
KeysIn(order, b) == SelectSeq(order, LAMBDA k : k \in DOMAIN b)

SetKey(a, k, v) == [x \in DOMAIN a \cup {k} |-> IF x = k THEN v ELSE a[x]]

RECURSIVE DeepMerge(_, _, _)
RECURSIVE deepMergeKeys(_, _, _, _)

\* the body of `for k, v := range b` for the keys still to visit; orders is
\* the visiting order of this map followed by those of the nested maps
deepMergeKeys(a, b, keys, orders) ==
    IF keys = << >> THEN Merged(ConfigValues(a))
    ELSE LET k == Head(keys)
         IN  IF k \in DOMAIN a
             THEN LET res == DeepMerge(a[k], b[k], Tail(orders))
                  IN  IF res.panic THEN MergePanic
                      ELSE IF res.err # NoErr
                           THEN [val |-> ConfigValues(a), err |-> res.err, panic |-> FALSE]
                           ELSE deepMergeKeys(SetKey(a, k, res.val), b, Tail(keys), orders)
             ELSE deepMergeKeys(SetKey(a, k, b[k]), b, Tail(keys), orders)

deepMergeMaps(a, b, orders) == deepMergeKeys(a, b, KeysIn(Head(orders), b), orders)

DeepMerge(a, b, orders) ==
    IF a = NilValue /\ b # NilValue THEN Merged(b)
    ELSE IF b = NilValue
    THEN \* typeA is nil when a is nil too, and typeA.Kind() panics
         IF a = NilValue THEN MergePanic
         ELSE IF a.kind = "slice" THEN Merged(Slice(<< >>))
         ELSE IF a.kind = "map" THEN Merged(ConfigValues(EmptyMap))
         ELSE Merged(Zero(a))
    ELSE IF a.kind # b.kind
    THEN [val |-> ConfigValues(EmptyMap),
          err |-> Errorf("cannot merge %s with %s", <<TypeString(a), TypeString(b)>>, NoErr),
          panic |-> FALSE]
    ELSE IF a.kind = "slice" THEN mergeSlices(a.items, b.items)
    ELSE IF a.kind = "map" THEN deepMergeMaps(a.m, b.m, orders)
    ELSE Merged(b)

(***************************************************************************)
(* DeepMerge on a pair of values.                                          *)
(***************************************************************************)
MaxItems == 2

Keys == {"a", "b"}
KeyOrders == {<<"a", "b">>, <<"b", "a">>}

ScalarItems == {StringValue("x"), StringValue("y")}
Scalars == ScalarItems \cup {IntValue("1"), BoolValue("true")}
ScalarSlices(n) == {Slice(q) : q \in SeqsUpTo(ScalarItems, n)}
ItemMaps ==
    {ConfigValues([k \in {"a"} |-> StringValue("x")]),
     ConfigValues([k \in {"b"} |-> IntValue("1")])}
MapSlices(n) == {Slice(q) : q \in SeqsUpTo(ItemMaps, n)}
MapsTo(values) == {ConfigValues(m) : m \in UNION {[K -> values] : K \in SUBSET Keys}}
InnerValues(n) ==
    {NilValue, StringValue("x"), StringValue("y"), IntValue("1")}
        \cup ScalarSlices(n - 1) \cup ItemMaps
Values(n) ==
    {NilValue} \cup Scalars \cup ScalarSlices(n) \cup MapSlices(n)
        \cup MapsTo(InnerValues(n))

InitMerge ==
    /\ SelectorIdle /\ OpsIdle /\ GhwIdle /\ FindIdle /\ UaIdle /\ ScanIdle /\ TpmIdle /\ ExIdle /\ PathIdle
    /\ mergeA \in Values(MaxItems)
    /\ mergeB \in Values(MaxItems)
    /\ mergeOrder \in {<<o1, o2>> : o1 \in KeyOrders, o2 \in KeyOrders}
    /\ mergePc = "call"
    /\ mergeRet = << >>

DeepMergeCall ==
    /\ mergePc = "call"
    /\ mergeRet' = DeepMerge(mergeA, mergeB, mergeOrder)
    /\ mergePc' = "done"
    /\ UNCHANGED <<mergeA, mergeB, mergeOrder, selVars, opsVars, ghwVars, findVars, uaVars, scanVars, tpmVars, exVars, pathVars>>

NextMerge == DeepMergeCall

SpecMerge == InitMerge /\ [][NextMerge]_vars

AllScalars(v) == v.kind = "slice" /\ \A i \in 1..Len(v.items) : IsScalar(v.items[i])
AllMaps(v) == v.kind = "slice" /\ \A i \in 1..Len(v.items) : v.items[i].kind = "map"

\* the first occurrence of every value of q, in order
RECURSIVE Firsts(_)
Firsts(q) ==
    IF q = << >> THEN << >>
    ELSE LET front == SubSeq(q, 1, Len(q) - 1)
             last == q[Len(q)]
         IN  IF last \in Range(front) THEN Firsts(front) ELSE Append(Firsts(front), last)

\* the values of right that left does not contain, each once
UniqueNew(left, right) == Firsts(SelectSeq(right, LAMBDA v : v \notin Range(left)))

\* a and b merged key by key: a key of both holds the merge of its two
\* values, any other key its only value; a failing key fails the merge
KeyByKey(a, b, r) ==
    LET both == DOMAIN a \cap DOMAIN b
        sub(k) == DeepMerge(a[k], b[k], Tail(mergeOrder))
    IN  IF \E k \in both : sub(k).panic \/ sub(k).err # NoErr
        THEN r.panic \/ r.err # NoErr
        ELSE r = Merged(ConfigValues([k \in DOMAIN a \cup DOMAIN b |->
                        IF k \in both THEN sub(k).val
                        ELSE IF k \in DOMAIN b THEN b[k] ELSE a[k]]))

\* C21: for every pair of values, DeepMerge merges two maps key by key
\* recursively, gives for two sequences of scalars the left one followed by
\* the values of the right one it does not contain, for two sequences of
\* maps their concatenation, for two scalars of one kind the right one, and
\* for two values of different kinds a merge error.
C21_DeepMergeRules ==
    (mergePc = "done" /\ mergeA # NilValue /\ mergeB # NilValue) =>
        /\ (mergeA.kind = "map" /\ mergeB.kind = "map") =>
               KeyByKey(mergeA.m, mergeB.m, mergeRet)
        /\ (AllScalars(mergeA) /\ AllScalars(mergeB)) =>
               mergeRet = Merged(Slice(mergeA.items \o UniqueNew(mergeA.items, mergeB.items)))
        /\ (AllMaps(mergeA) /\ AllMaps(mergeB)) =>
               mergeRet = Merged(Slice(mergeA.items \o mergeB.items))
        /\ (IsScalar(mergeA) /\ mergeA.kind = mergeB.kind) =>
               mergeRet = Merged(mergeB)
        /\ (mergeA.kind # mergeB.kind) =>
               (~mergeRet.panic /\ mergeRet.err # NoErr)

(***************************************************************************)
(* Configs.Merge: every config follows its config_url chain and is then    *)
(* merged into the result.                                                 *)
(***************************************************************************)
MaxConfigs == 2
MaxDepth == 4

\* retry.Attempts(3) of fetchRemoteConfig
Attempts == 3

EmptyConfig == [Sources |-> << >>, Values |-> NilValue]

\* yaml.Marshal followed by yaml.Unmarshal: strconv.FormatFloat(f, 'g', -1, 64)
\* writes a float without fraction as an integer, which is read back as an int
FormatFloat(s) == IF s = "1.0" THEN "1" ELSE s

RECURSIVE yamlCopy(_)
yamlCopy(v) ==
    CASE v.kind = "float64" ->
             IF FormatFloat(v.s) = v.s THEN v ELSE IntValue(FormatFloat(v.s))
      [] v.kind = "slice" -> Slice([i \in 1..Len(v.items) |-> yamlCopy(v.items[i])])
      [] v.kind = "map" -> ConfigValues([k \in DOMAIN v.m |-> yamlCopy(v.m[k])])
      [] OTHER -> v

\* a nil map is written as {} and read back as an empty map
valuesCopy(c) == IF c.Values = NilValue THEN ConfigValues(EmptyMap) ELSE yamlCopy(c.Values)

\* the receiver after the call, with the error or panic of the call
MergeConfig_Replace(c, newConfig, orders) ==
    [c |-> [Sources |-> c.Sources \o newConfig.Sources, Values |-> valuesCopy(newConfig)],
     err |-> NoErr, panic |-> FALSE]

MergeConfig(c, newConfig, orders) ==
    LET mergedValues == DeepMerge(valuesCopy(c), valuesCopy(newConfig), orders)
    IN  IF mergedValues.panic \/ mergedValues.err # NoErr
        THEN [c |-> c, err |-> mergedValues.err, panic |-> mergedValues.panic]
        ELSE [c |-> [Sources |-> c.Sources \o newConfig.Sources,
                     Values |-> mergedValues.val],
              err |-> NoErr, panic |-> FALSE]

ConfigURL(c) ==
    IF /\ c.Values # NilValue
       /\ "config_url" \in DOMAIN c.Values.m
       /\ c.Values.m["config_url"].kind = "string"
    THEN c.Values.m["config_url"].s
    ELSE ""

\* ---- inputs ----
URLs == {"u1", "u2"}

Map1(k, v) == ConfigValues([x \in {k} |-> v])
Map2(k1, v1, k2, v2) == ConfigValues([x \in {k1, k2} |-> IF x = k1 THEN v1 ELSE v2])

SourceValues ==
    {NilValue,
     Map1("a", IntValue("1")), Map1("b", IntValue("2")), Map1("a", StringValue("x")),
     Map1("a", Float64Value("1.0")), Map1("a", NilValue),
     Map1("config_url", StringValue("u1")), Map1("config_url", StringValue("u2")),
     Map2("a", IntValue("1"), "config_url", StringValue("u1"))}

FileNames == <<"f1", "f2", "f3">>

SourceConfigs(n) ==
    UNION {[1..k -> SourceValues] : k \in 0..n}

ConfigsOf(vs) == [i \in 1..Len(vs) |-> [Sources |-> <<FileNames[i]>>, Values |-> vs[i]]]

\* the body of a response: whether it has a valid header, whether it parses,
\* and the values it parses to
Body(header, parses, values) == [header |-> header, parses |-> parses, values |-> values]

Bodies ==
    [u \in URLs |->
        IF u = "u1"
        THEN {Body(FALSE, TRUE, Map1("b", IntValue("2"))),
              Body(TRUE, FALSE, NilValue),
              Body(TRUE, TRUE, Map1("b", IntValue("2"))),
              Body(TRUE, TRUE, Map1("a", StringValue("x"))),
              Body(TRUE, TRUE, Map2("b", IntValue("2"), "config_url", StringValue("u1"))),
              Body(TRUE, TRUE, Map1("config_url", StringValue("u2")))}
        ELSE {Body(TRUE, TRUE, Map1("b", IntValue("2"))),
              Body(TRUE, TRUE, Map1("config_url", StringValue("u1")))}]

\* a server that is up answers every GET; a flaky one may fail any GET
Webs == {w \in [URLs -> [up : {"yes", "flaky"}, body : UNION {Bodies[u] : u \in URLs}]] :
            \A u \in URLs : w[u].body \in Bodies[u]}

Perms(S) == {q \in [1..Cardinality(S) -> S] : \A x \in S : \E i \in 1..Cardinality(S) : q[i] = x}

ScanOrders == {<<o1, o2>> : o1 \in Perms({"a", "b", "config_url"}), o2 \in KeyOrders}

InitScan ==
    /\ SelectorIdle /\ OpsIdle /\ GhwIdle /\ FindIdle /\ UaIdle /\ MergeIdle /\ TpmIdle /\ ExIdle /\ PathIdle
    /\ configs \in {ConfigsOf(vs) : vs \in SourceConfigs(MaxConfigs)}
    /\ web \in Webs
    /\ csIdx = 1
    /\ frames = << >>
    /\ attempts = 0
    /\ scanPc = "range"
    /\ result = EmptyConfig
    /\ scanErr = NoErr
    /\ fetched = << >>

NotScan == <<selVars, opsVars, ghwVars, findVars, uaVars, mergeVars, tpmVars, exVars, pathVars>>

Top == frames[Len(frames)]

\* for _, c := range cs
MergeRange ==
    /\ scanPc = "range"
    /\ IF csIdx > Len(configs)
       THEN scanPc' = "done" /\ UNCHANGED frames
       ELSE scanPc' = "url" /\ frames' = <<configs[csIdx]>>
    /\ UNCHANGED <<configs, web, csIdx, attempts, result, scanErr, fetched, NotScan>>

\* c.MergeConfigURL() up to the call of fetchRemoteConfig
MergeConfigURL ==
    /\ scanPc = "url"
    /\ IF ConfigURL(Top) = ""
       THEN scanPc' = "return" /\ UNCHANGED <<attempts, fetched>>
       ELSE /\ scanPc' = "fetch"
            /\ attempts' = 0
            /\ fetched' = Append(fetched, ConfigURL(Top))
    /\ UNCHANGED <<configs, web, csIdx, frames, result, scanErr, NotScan>>

\* remoteConfig.MergeConfigURL(): one more frame, unless the stack is exhausted
Recurse(remoteConfig) ==
    IF Len(frames) = MaxDepth
    THEN scanPc' = "overflow" /\ UNCHANGED <<frames, scanErr>>
    ELSE scanPc' = "url" /\ frames' = Append(frames, remoteConfig) /\ UNCHANGED scanErr

\* one http.Get that fails; after the third, fetchRemoteConfig returns an
\* empty config and no error
HttpGetFails ==
    /\ scanPc = "fetch"
    /\ web[ConfigURL(Top)].up = "flaky"
    /\ IF attempts + 1 < Attempts
       THEN attempts' = attempts + 1 /\ UNCHANGED <<scanPc, frames, scanErr>>
       ELSE attempts' = attempts + 1 /\ Recurse(EmptyConfig)
    /\ UNCHANGED <<configs, web, csIdx, result, fetched, NotScan>>

\* one http.Get that succeeds, and the rest of fetchRemoteConfig
HttpGetSucceeds ==
    /\ scanPc = "fetch"
    /\ LET url == ConfigURL(Top)
           body == web[url].body
       IN  IF ~body.header THEN Recurse(EmptyConfig)
           ELSE IF ~body.parses
           THEN /\ scanErr' = Errorf("could not unmarshal remote config to an object",
                                     "", NewErr("yaml"))
                /\ scanPc' = "done"
                /\ UNCHANGED frames
           ELSE Recurse([Sources |-> <<url>>, Values |-> body.values])
    /\ UNCHANGED <<configs, web, csIdx, attempts, result, fetched, NotScan>>

\* the nested MergeConfigURL returned nil: c.MergeConfig(remoteConfig)
MergeRemote ==
    /\ scanPc = "return"
    /\ Len(frames) > 1
    /\ \E orders \in ScanOrders :
         LET merged == MergeConfig(frames[Len(frames) - 1], Top, orders)
         IN  IF merged.panic THEN scanPc' = "panic" /\ UNCHANGED <<frames, scanErr>>
             ELSE IF merged.err # NoErr
             THEN scanPc' = "done" /\ scanErr' = merged.err /\ UNCHANGED frames
             ELSE /\ frames' = Append(SubSeq(frames, 1, Len(frames) - 2), merged.c)
                  /\ UNCHANGED <<scanPc, scanErr>>
    /\ UNCHANGED <<configs, web, csIdx, attempts, result, fetched, NotScan>>

\* c.MergeConfigURL() returned nil: result.MergeConfig(c)
MergeIntoResult ==
    /\ scanPc = "return"
    /\ Len(frames) = 1
    /\ \E orders \in ScanOrders :
         LET merged == MergeConfig(result, Top, orders)
         IN  IF merged.panic THEN scanPc' = "panic" /\ UNCHANGED <<result, scanErr, csIdx, frames>>
             ELSE IF merged.err # NoErr
             THEN /\ scanPc' = "done" /\ scanErr' = merged.err
                  /\ UNCHANGED <<result, csIdx, frames>>
             ELSE /\ result' = merged.c
                  /\ csIdx' = csIdx + 1
                  /\ frames' = << >>
                  /\ scanPc' = "range"
                  /\ UNCHANGED scanErr
    /\ UNCHANGED <<configs, web, attempts, fetched, NotScan>>

NextScan ==
    \/ MergeRange
    \/ MergeConfigURL
    \/ HttpGetFails
    \/ HttpGetSucceeds
    \/ MergeRemote
    \/ MergeIntoResult

SpecScan == InitScan /\ [][NextScan]_vars

KeysOf(c) == IF c.Values = NilValue THEN {} ELSE DOMAIN c.Values.m

DisjointKeys(cfgs) ==
    \A i, j \in 1..Len(cfgs) : i # j => KeysOf(cfgs[i]) \cap KeysOf(cfgs[j]) = {}

NoConfigURL(cfgs) == \A i \in 1..Len(cfgs) : "config_url" \notin KeysOf(cfgs[i])

\* every key of every config with the value its config gives it
UnionOf(cfgs) ==
    LET keys == UNION {KeysOf(cfgs[i]) : i \in 1..Len(cfgs)}
        holder(k) == CHOOSE i \in 1..Len(cfgs) : k \in KeysOf(cfgs[i])
    IN  ConfigValues([k \in keys |-> valuesCopy(cfgs[holder(k)]).m[k]])

Reverse(q) == [i \in 1..Len(q) |-> q[Len(q) + 1 - i]]

\* the configs merged one after the other into an empty config
RECURSIVE MergeAll(_, _)
MergeAll(cfgs, orders) ==
    IF cfgs = << >> THEN [c |-> EmptyConfig, err |-> NoErr, panic |-> FALSE]
    ELSE LET front == MergeAll(SubSeq(cfgs, 1, Len(cfgs) - 1), orders)
         IN  IF front.panic \/ front.err # NoErr THEN front
             ELSE MergeConfig(front.c, cfgs[Len(cfgs)], orders)

\* C22: configs with pairwise disjoint key sets merge to the same values in
\* either order: every key with the value of the one config that holds it,
\* which is also what merging them in the reverse order gives ({a: 1} then
\* {b: 2}, or {b: 2} then {a: 1}, both give {a: 1, b: 2}).
C22_DisjointMergeEitherOrder ==
    (configs # << >> /\ DisjointKeys(configs) /\ NoConfigURL(configs)) =>
        /\ scanPc \notin {"panic", "overflow"}
        /\ scanPc = "done" =>
             /\ scanErr = NoErr
             /\ result.Values = UnionOf(configs)
             /\ \A orders \in ScanOrders :
                  result.Values = MergeAll(Reverse(configs), orders).c.Values

C22_Witness ==
    /\ scanPc = "done"
    /\ configs = ConfigsOf(<<Map1("a", IntValue("1")), Map1("b", IntValue("2"))>>)
    /\ result.Values = Map2("a", IntValue("1"), "b", IntValue("2"))
    /\ MergeAll(Reverse(configs), <<<<"a", "b", "config_url">>, <<"a", "b">>>>).c.Values
           = Map2("a", IntValue("1"), "b", IntValue("2"))

\* the config in hand after merging an empty remote config into it
InHand(c) == [Sources |-> c.Sources, Values |-> valuesCopy(c)]

\* C28: resolution of config_url always terminates, also when a fetched
\* config refers back to a url already visited (the chain of nested calls
\* never exhausts the stack), and a fetch given up after its 3 attempts ends
\* the chain without an error and leaves the config in hand as it was.
C28_ConfigURLResolutionTerminates ==
    /\ scanPc # "overflow"
    /\ (scanPc = "url" /\ attempts = Attempts /\ Top = EmptyConfig) =>
           /\ ConfigURL(Top) = ""
           /\ \A orders \in ScanOrders :
                MergeConfig(frames[Len(frames) - 1], Top, orders)
                    = [c |-> InHand(frames[Len(frames) - 1]), err |-> NoErr, panic |-> FALSE]

(***************************************************************************)
(* The TPM passphrase store, call by call: GetOrCreateLocalTPMPassphrase   *)
(* with the options each call of the TPM helper library is given.          *)
(***************************************************************************)
WithIndex(i) == [opt |-> "index", val |-> i]
WithDevice(d) == [opt |-> "device", val |-> d]

\* what the library uses when an option is not given
DefaultTPMOption == [index |-> "", device |-> ""]

\* the options applied in order: the last one of a kind stands
RECURSIVE Applied(_, _)
Applied(o, opts) ==
    IF opts = << >> THEN o
    ELSE Applied(IF Head(opts).opt = "index" THEN [o EXCEPT !.index = Head(opts).val]
                 ELSE [o EXCEPT !.device = Head(opts).val],
                 Tail(opts))

TPMOptions(opts) == Applied(DefaultTPMOption, opts)

DeviceOpt(p) == IF p.tpmDevice # "" THEN <<WithDevice(p.tpmDevice)>> ELSE << >>
SealingOpt(p) == IF p.cIndex # "" THEN <<WithIndex(p.cIndex)>> ELSE << >>

\* opts of tpm.ReadBlob
ReadOpts(p) == <<WithIndex(StoreArgs(p).nvIndex)>> \o DeviceOpt(p)

\* decryptOpts of tpm.DecryptBlob
DecryptOpts(p) == SealingOpt(p) \o DeviceOpt(p)

\* tpm.EncryptBlob([]byte(rand)) is called without options
EncryptOpts(p) == << >>

\* opts of tpm.StoreBlob
StoreOpts(p) == DeviceOpt(p) \o SealingOpt(p) \o <<WithIndex(StoreArgs(p).nvIndex)>>

\* a sealed blob opens on the device and under the index it was sealed with
Seal(data, opts) ==
    [data |-> data, device |-> TPMOptions(opts).device, key |-> TPMOptions(opts).index]
Unseals(blob, opts) ==
    blob.device = TPMOptions(opts).device /\ blob.key = TPMOptions(opts).index

Slot(opts) == {r \in nvram : r.device = TPMOptions(opts).device /\ r.index = TPMOptions(opts).index}

TPMParams ==
    [nvIndex : {"", "0x1500001"}, cIndex : {"", "0x81000009"}, tpmDevice : {"", "/dev/tpmrm1"}]

\* the operations that fail, the calls whose ReadBlob fails whatever the NV
\* index holds, and the seed of the random string
TPMFaults == [fail : SUBSET {"encrypt", "store", "decrypt"}, read : SUBSET {1, 2}, seed : Seeds]

\* NV memory at the first call: empty, or holding a passphrase stored for
\* these arguments
StoredBefore(p) ==
    {{}, {[device |-> TPMOptions(ReadOpts(p)).device, index |-> TPMOptions(ReadOpts(p)).index,
           blob |-> Seal(PluginKey, DecryptOpts(p))]}}

InitTpm ==
    /\ SelectorIdle /\ OpsIdle /\ GhwIdle /\ FindIdle /\ UaIdle /\ MergeIdle /\ ScanIdle /\ ExIdle /\ PathIdle
    /\ tpmParams \in TPMParams
    /\ tpmFaults \in TPMFaults
    /\ tpmPc = "read"
    /\ tpmCall = 1
    /\ nvram \in StoredBefore(tpmParams)
    /\ tpmBlob = << >>
    /\ tpmLog = << >>
    /\ tpmRets = << >>

NotTpm == <<selVars, opsVars, ghwVars, findVars, uaVars, mergeVars, scanVars, exVars, pathVars>>

Logged(fn, opts) == Append(tpmLog, [call |-> tpmCall, fn |-> fn, opts |-> opts])

\* the call returns; the second call follows the first
TpmReturn(p, err) ==
    /\ tpmRets' = Append(tpmRets, [pass |-> p, err |-> err])
    /\ IF tpmCall = 1 THEN tpmCall' = 2 /\ tpmPc' = "read"
       ELSE tpmCall' = tpmCall /\ tpmPc' = "done"

\* encodedPass, err := tpm.ReadBlob(opts...)
TpmReadBlob ==
    /\ tpmPc = "read"
    /\ tpmLog' = Logged("ReadBlob", ReadOpts(tpmParams))
    /\ IF Slot(ReadOpts(tpmParams)) = {} \/ tpmCall \in tpmFaults.read
       THEN tpmPc' = "encrypt" /\ tpmBlob' = << >>
       ELSE /\ tpmPc' = "decrypt"
            /\ tpmBlob' = (CHOOSE r \in Slot(ReadOpts(tpmParams)) : TRUE).blob
    /\ UNCHANGED <<tpmParams, tpmFaults, tpmCall, nvram, tpmRets, NotTpm>>

\* pass, err := tpm.DecryptBlob(encodedPass, decryptOpts...)
TpmDecryptBlob ==
    /\ tpmPc = "decrypt"
    /\ tpmLog' = Logged("DecryptBlob", DecryptOpts(tpmParams))
    /\ IF "decrypt" \in tpmFaults.fail \/ ~Unseals(tpmBlob, DecryptOpts(tpmParams))
       THEN TpmReturn(NoPass, NewErr("decrypt blob"))
       ELSE TpmReturn(tpmBlob.data, NoErr)
    /\ UNCHANGED <<tpmParams, tpmFaults, nvram, tpmBlob, NotTpm>>

\* rand := utils.RandomString(32); blob, err := tpm.EncryptBlob([]byte(rand))
TpmEncryptBlob ==
    /\ tpmPc = "encrypt"
    /\ tpmLog' = Logged("EncryptBlob", EncryptOpts(tpmParams))
    /\ LET rand == RandomString(RandomPassLen, tpmFaults.seed + tpmCall)
       IN  IF "encrypt" \in tpmFaults.fail
           THEN TpmReturn(NoPass, NewErr("encrypt blob")) /\ UNCHANGED tpmBlob
           ELSE /\ tpmBlob' = Seal(rand, EncryptOpts(tpmParams))
                /\ tpmPc' = "store"
                /\ UNCHANGED <<tpmCall, tpmRets>>
    /\ UNCHANGED <<tpmParams, tpmFaults, nvram, NotTpm>>

\* return rand, tpm.StoreBlob(blob, opts...)
TpmStoreBlob ==
    /\ tpmPc = "store"
    /\ tpmLog' = Logged("StoreBlob", StoreOpts(tpmParams))
    /\ IF "store" \in tpmFaults.fail
       THEN TpmReturn(tpmBlob.data, NewErr("store blob")) /\ UNCHANGED nvram
       ELSE /\ nvram' = (nvram \ Slot(StoreOpts(tpmParams))) \cup
                          {[device |-> TPMOptions(StoreOpts(tpmParams)).device,
                            index |-> TPMOptions(StoreOpts(tpmParams)).index,
                            blob |-> tpmBlob]}
            /\ TpmReturn(tpmBlob.data, NoErr)
    /\ UNCHANGED <<tpmParams, tpmFaults, tpmBlob, NotTpm>>

NextTpm == TpmReadBlob \/ TpmDecryptBlob \/ TpmEncryptBlob \/ TpmStoreBlob

SpecTpm == InitTpm /\ [][NextTpm]_vars

CallsOf(fn, n) == SelectSeq(tpmLog, LAMBDA c : c.fn = fn /\ c.call = n)

\* C25: when the first call finds no blob and creates a passphrase P, the
\* next call with the same arguments returns P, and the seal operation of
\* the creating call is given the sealing index and the TPM device exactly
\* as the unseal operation of the reading call.
C25_StoreRoundTrip ==
    (/\ tpmPc = "done"
     /\ tpmFaults.fail = {}
     /\ tpmFaults.read = {}
     /\ CallsOf("EncryptBlob", 1) # << >>) =>
        /\ tpmRets[2] = [pass |-> tpmRets[1].pass, err |-> NoErr]
        /\ CallsOf("DecryptBlob", 2) # << >>
        /\ CallsOf("EncryptBlob", 1)[1].opts = CallsOf("DecryptBlob", 2)[1].opts

(***************************************************************************)
(* ScanKcryptConfig: the sources and the command line are merged and the   *)
(* kcrypt config is extracted from the merged tree.                        *)
(***************************************************************************)
MaxTokens == 2

\* a *bus.KcryptConfig with every field of the struct
KcryptConfig(server, mdns, cert, nvIndex, cIndex, tpmDevice) ==
    [isNil |-> FALSE, ChallengerServer |-> server, MDNS |-> mdns, Certificate |-> cert,
     NVIndex |-> nvIndex, CIndex |-> cIndex, TPMDevice |-> tpmDevice]

\* config := &bus.KcryptConfig{}
ZeroKcryptConfig == KcryptConfig("", FALSE, "", "", "", "")

\* the nil *bus.KcryptConfig
NilKcryptConfig == [ZeroKcryptConfig EXCEPT !.isNil = TRUE]

\* m[k].(string) and m[k].(bool), with the zero value when the assertion fails
StringAt(m, k) == IF k \in DOMAIN m /\ m[k].kind = "string" THEN m[k].s ELSE ""
BoolAt(m, k) == k \in DOMAIN m /\ m[k].kind = "bool" /\ m[k].s = "true"
IsMapAt(m, k) == k \in DOMAIN m /\ m[k].kind = "map"

\* extractKcryptConfigFromCollector of config.go, first version
extractKcryptConfigFromCollector(values) ==
    IF values = NilValue THEN ZeroKcryptConfig
    ELSE IF ~IsMapAt(values.m, "kcrypt") THEN ZeroKcryptConfig
    ELSE LET kcryptMap == values.m["kcrypt"].m
             challengerMap == IF IsMapAt(kcryptMap, "challenger")
                              THEN kcryptMap["challenger"].m ELSE EmptyMap
         IN  KcryptConfig(StringAt(challengerMap, "challenger_server"),
                          BoolAt(challengerMap, "mdns"),
                          StringAt(challengerMap, "certificate"),
                          StringAt(kcryptMap, "nv_index"),
                          StringAt(kcryptMap, "c_index"),
                          StringAt(kcryptMap, "tpm_device"))

extractChallengerConfig(kcryptMap) ==
    IF ~IsMapAt(kcryptMap, "challenger") THEN NilKcryptConfig
    ELSE LET challengerMap == kcryptMap["challenger"].m
         IN  KcryptConfig(StringAt(challengerMap, "challenger_server"),
                          BoolAt(challengerMap, "mdns"),
                          StringAt(challengerMap, "certificate"),
                          StringAt(challengerMap, "nv_index"),
                          StringAt(challengerMap, "c_index"),
                          StringAt(challengerMap, "tpm_device"))

\* extractKcryptConfigFromCollector of config.go, second version: kairos.kcrypt
\* first, then the top-level kcrypt, and nil when there is neither
extractKcryptConfigFromCollectorV2(values) ==
    IF values = NilValue THEN NilKcryptConfig
    ELSE IF IsMapAt(values.m, "kairos") /\ IsMapAt(values.m["kairos"].m, "kcrypt")
    THEN extractChallengerConfig(values.m["kairos"].m["kcrypt"].m)
    ELSE IF IsMapAt(values.m, "kcrypt")
    THEN extractChallengerConfig(values.m["kcrypt"].m)
    ELSE NilKcryptConfig

\* a scalar of the command line read as YAML
YamlScalar(text) ==
    IF text \in {"true", "false"} THEN BoolValue(text) ELSE StringValue(text)

\* machine.DotToYAML: every key=value token is a path, its dots expanding
\* into nested maps
RECURSIVE SetPath(_, _, _)
SetPath(m, path, v) ==
    IF Len(path) = 1 THEN SetKey(m, path[1], v)
    ELSE LET k == Head(path)
             sub == IF IsMapAt(m, k) THEN m[k].m ELSE EmptyMap
         IN  SetKey(m, k, ConfigValues(SetPath(sub, Tail(path), v)))

RECURSIVE DotToYAML(_)
DotToYAML(tokens) ==
    IF tokens = << >> THEN EmptyMap
    ELSE LET t == tokens[Len(tokens)]
         IN  SetPath(DotToYAML(SubSeq(tokens, 1, Len(tokens) - 1)), t.key, YamlScalar(t.value))

ParseCmdLine(tokens) == [Sources |-> <<"cmdline">>, Values |-> ConfigValues(DotToYAML(tokens))]

\* the keys of every level in one fixed order: the order decides only which
\* merge error is reported, and ScanKcryptConfig drops the error
ExOrders ==
    [i \in 1..4 |-> <<"a", "kairos", "kcrypt", "challenger", "challenger_server", "mdns",
                      "nv_index", "c_index", "tpm_device", "quiet">>]

\* collector.Scan with MergeBootCMDLine: the files, then the command line
Scan(files, tokens) == MergeAll(ConfigsOf(files) \o <<ParseCmdLine(tokens)>>, ExOrders)

\* the payload the remote KMS strategy builds: a nil config is scanned again
DiscoveryPasswordPayload(cfg, scanned) ==
    LET k == IF cfg.isNil THEN scanned ELSE cfg
    IN  IF k.isNil THEN [ChallengerServer |-> "", MDNS |-> FALSE]
        ELSE [ChallengerServer |-> k.ChallengerServer, MDNS |-> k.MDNS]

\* what GetEncryptor and the strategy it builds derive from the config
Selected(cfg, uki, scanned) ==
    [name |-> ChooseStrategy(cfg, uki),
     tpm |-> LocalTPMParams(cfg),
     payload |-> DiscoveryPasswordPayload(cfg, scanned)]

\* ---- inputs ----
Token(key, value) == [key |-> key, value |-> value]

Tokens ==
    {Token(<<"kairos", "kcrypt", "challenger_server">>, "kms.local"),
     Token(<<"kairos", "kcrypt", "mdns">>, "true"),
     Token(<<"kairos", "kcrypt", "nv_index">>, "0x1600000"),
     Token(<<"kairos", "kcrypt", "challenger", "challenger_server">>, "kms.local"),
     Token(<<"kcrypt", "challenger", "mdns">>, "true"),
     Token(<<"quiet">>, "true")}

Challenger ==
    Map2("challenger_server", StringValue("kms.local"), "mdns", BoolValue("true"))

\* the three TPM fields, directly under kcrypt and inside kcrypt.challenger
TPMFields ==
    ConfigValues([k \in {"nv_index", "c_index", "tpm_device"} |->
                     CASE k = "nv_index" -> StringValue("0x1600000")
                       [] k = "c_index" -> StringValue("0x1600001")
                       [] OTHER -> StringValue("/dev/tpmrm0")])

TopLevelLayout == Map1("kcrypt", TPMFields)
NestedLayout == Map1("kcrypt", Map1("challenger", TPMFields))

FileValues ==
    {NilValue, TopLevelLayout, NestedLayout,
     Map1("a", IntValue("1")),
     Map1("kcrypt", Map1("challenger", Challenger)),
     Map1("kcrypt", Map1("nv_index", StringValue("0x1600000"))),
     Map1("kcrypt", ConfigValues(EmptyMap)),
     Map1("kcrypt", StringValue("x")),
     Map1("kairos", Map1("kcrypt", Map1("challenger", Challenger)))}

InitExtract ==
    /\ SelectorIdle /\ OpsIdle /\ GhwIdle /\ FindIdle /\ UaIdle
    /\ MergeIdle /\ ScanIdle /\ TpmIdle /\ PathIdle
    /\ fileValues \in {<< >>} \cup {<<v>> : v \in FileValues}
    /\ cmdline \in SeqsUpTo(Tokens, MaxTokens)
    /\ exVersion \in {1, 2}
    /\ exUKI \in BOOLEAN
    /\ exPc = "scan"
    /\ collected = << >>
    /\ extracted = << >>
    /\ chosen = << >>

NotEx == <<selVars, opsVars, ghwVars, findVars, uaVars, mergeVars, scanVars, tpmVars, pathVars>>

\* collectorConfig, err := collector.Scan(...): an error gives nil
ExScan ==
    /\ exPc = "scan"
    /\ collected' = Scan(fileValues, cmdline)
    /\ IF collected'.err # NoErr
       THEN extracted' = NilKcryptConfig /\ exPc' = "select"
       ELSE extracted' = extracted /\ exPc' = "extract"
    /\ UNCHANGED <<fileValues, cmdline, exVersion, exUKI, chosen, NotEx>>

\* result := extractKcryptConfigFromCollector(*collectorConfig, logger)
ExExtract ==
    /\ exPc = "extract"
    /\ extracted' = IF exVersion = 1
                    THEN extractKcryptConfigFromCollector(collected.c.Values)
                    ELSE extractKcryptConfigFromCollectorV2(collected.c.Values)
    /\ exPc' = "select"
    /\ UNCHANGED <<fileValues, cmdline, exVersion, exUKI, collected, chosen, NotEx>>

\* GetEncryptor on the result, and the strategy on the config it was given
ExSelect ==
    /\ exPc = "select"
    /\ chosen' = Selected(extracted, exUKI, extracted)
    /\ exPc' = "done"
    /\ UNCHANGED <<fileValues, cmdline, exVersion, exUKI, collected, extracted, NotEx>>

NextExtract == ExScan \/ ExExtract \/ ExSelect

SpecExtract == InitExtract /\ [][NextExtract]_vars

\* the merged tree has no kcrypt key, neither at the top nor below kairos
NoKcryptData(values) ==
    \/ values = NilValue
    \/ /\ "kcrypt" \notin DOMAIN values.m
       /\ ~(IsMapAt(values.m, "kairos") /\ "kcrypt" \in DOMAIN values.m["kairos"].m)

ExtractedNothing ==
    exPc = "done" /\ collected.err = NoErr /\ NoKcryptData(collected.c.Values)

\* the choice and the derived parameters are those of an absent config and
\* those of an all-empty config
AbsentAndEmptyAlike ==
    /\ chosen = Selected(NilKcryptConfig, exUKI, extracted)
    /\ chosen = Selected(ZeroKcryptConfig, exUKI, extracted)

FieldOf(cfg, field) ==
    CASE field = "challenger_server" -> cfg.ChallengerServer
      [] field = "mdns" -> IF cfg.MDNS THEN "true" ELSE "false"
      [] field = "nv_index" -> cfg.NVIndex
      [] OTHER -> ""

IsFlatKey(key) == Len(key) = 3 /\ key[1] = "kairos" /\ key[2] = "kcrypt"

\* C24: with no YAML source, every flat key kairos.kcrypt.<field> of the
\* command line sets the corresponding field of the extracted config; with
\* challenger_server=kms.local and mdns=true the config has that server and
\* MDNS true and the selector chooses Remote KMS.
C24_FlatCmdlineKeysSetFields ==
    (exPc = "done" /\ fileValues = << >>) =>
        /\ \A i \in 1..Len(cmdline) :
             IsFlatKey(cmdline[i].key) =>
                 (~extracted.isNil /\ FieldOf(extracted, cmdline[i].key[3]) = cmdline[i].value)
        /\ cmdline = <<Token(<<"kairos", "kcrypt", "challenger_server">>, "kms.local"),
                       Token(<<"kairos", "kcrypt", "mdns">>, "true")>> =>
             /\ extracted.ChallengerServer = "kms.local"
             /\ extracted.MDNS
             /\ chosen.name = RemoteKMS

(***************************************************************************)
(* luksUnlock, step by step (unnamed/part_000 87-155, part_002 16-124).    *)
(* Version 1 sleeps and settles after every failed attempt, version 2      *)
(* before every attempt but the first.  Log records are                    *)
(* [level, msg, fields], a field is [name, kind, str, int, err].           *)
(***************************************************************************)
StrField(name, s) == [name |-> name, kind |-> "Str", str |-> s, int |-> 0, err |-> NoErr]
IntField(name, n) == [name |-> name, kind |-> "Int", str |-> << >>, int |-> n, err |-> NoErr]
ErrField(err) == [name |-> "error", kind |-> "Err", str |-> << >>, int |-> 0, err |-> err]
LogRecord(level, msg, fields) == [level |-> level, msg |-> msg, fields |-> fields]

\* if logger != nil { logger.Logger... }
WithRecords(on, recs) == IF on THEN logRecords \cup recs ELSE logRecords

Step(name, ok) == [step |-> name, ok |-> ok]

StatErr == Errorf("stat: no such file or directory", << >>, NoErr)
SettleErr == Errorf("udevadm settle failed", << >>, NoErr)
OpenErr == Errorf("luks: open failed", << >>, NoErr)
SlotErr == Errorf("luks: no key available with this passphrase", << >>, NoErr)

LuksArgs ==
    [device : {DevPath("sda1")}, mapper : {<<"sda1">>},
     password : {PluginKey, OtherKey}, logger : BOOLEAN]

LuksHosts == [device : BOOLEAN, mapper : BOOLEAN, key : {PluginKey}]

\* filepath.Join("/dev", "mapper", mapper)
mapperPath == <<"/", "dev", "/", "mapper", "/">> \o luArgs.mapper

\* for attempt := 0; attempt < maxRetries; attempt++ { if attempt > 0 { ... settle
LoopHead(n) ==
    IF n >= LuksMaxRetries THEN "after"
    ELSE IF luVersion = 2 /\ n > 0 THEN "settle"
    ELSE "open"

\* version 2: defer func() { if dev != nil { _ = dev.Close() } }()
DeferredClose(trace) ==
    LET opens == {i \in 1..Len(trace) : trace[i].step = "open"}
        last == CHOOSE i \in opens : \A j \in opens : j <= i
    IN  IF luVersion = 2 /\ opens # {} /\ trace[last].ok
        THEN Append(trace, Step("close", TRUE))
        ELSE trace

InitLuks ==
    /\ SelectorIdle /\ OpsIdle /\ GhwIdle /\ FindIdle /\ UaIdle
    /\ MergeIdle /\ ScanIdle /\ TpmIdle /\ ExIdle /\ PassIdle /\ LateIdle
    /\ luVersion \in {1, 2}
    /\ luArgs \in LuksArgs
    /\ luHost \in LuksHosts
    /\ luPc = "statDevice"
    /\ luAttempt = 0
    /\ luUnlockErr = NoErr
    /\ luTrace = << >>
    /\ luRet = NoErr
    /\ logRecords = {}
    /\ passUsed = {}

NotPath == <<selVars, opsVars, ghwVars, findVars, uaVars, mergeVars, scanVars, tpmVars, exVars, lateVars>>

NotLuks == <<NotPath, passVars>>

\* if _, err := os.Stat(device); err != nil { return "device not accessible" }
LuStatDevice ==
    /\ luPc = "statDevice"
    /\ luTrace' = Append(luTrace, Step("stat device", luHost.device))
    /\ IF luHost.device
       THEN luPc' = "statMapper" /\ UNCHANGED luRet
       ELSE /\ luPc' = "done"
            /\ luRet' = Errorf("device not accessible", << >>, StatErr)
    /\ UNCHANGED <<NotLuks, luVersion, luArgs, luHost, luAttempt, luUnlockErr, logRecords, passUsed>>

\* variant: an existing mapper does not end the call
LuStatMapper_NoShortcut ==
    /\ luPc = "statMapper"
    /\ luTrace' = Append(luTrace, Step("stat mapper", luHost.mapper))
    /\ luPc' = LoopHead(0)
    /\ luRet' = NoErr
    /\ UNCHANGED <<NotLuks, luVersion, luArgs, luHost, luAttempt, luUnlockErr, logRecords, passUsed>>

\* if _, err := os.Stat(mapperPath); err == nil { return nil }
LuStatMapper ==
    /\ luPc = "statMapper"
    /\ luTrace' = Append(luTrace, Step("stat mapper", luHost.mapper))
    /\ IF luHost.mapper
       THEN /\ luPc' = "done"
            /\ logRecords' = WithRecords(luArgs.logger,
                   {LogRecord("debug", "Mapper already exists", {StrField("mapper", mapperPath)})})
       ELSE /\ luPc' = LoopHead(0)
            /\ UNCHANGED logRecords
    /\ luRet' = NoErr
    /\ UNCHANGED <<NotLuks, luVersion, luArgs, luHost, luAttempt, luUnlockErr, passUsed>>

\* version 2, attempt > 0: time.Sleep, udevAdmSettle(logger, 10s)
LuSettleRetry ==
    /\ luPc = "settle"
    /\ \E ok \in BOOLEAN :
         /\ luTrace' = Append(luTrace, Step("settle 10s", ok))
         /\ logRecords' = WithRecords(luArgs.logger /\ ~ok,
                {LogRecord("warn", "Failed to settle",
                           {IntField("attempt", luAttempt + 1), ErrField(SettleErr)})})
    /\ luPc' = "open"
    /\ UNCHANGED <<NotLuks, luVersion, luArgs, luHost, luAttempt, luUnlockErr, luRet, passUsed>>

\* what follows a failed open or unlock: version 1 settles, version 2 continues
AttemptFailed ==
    IF luVersion = 1
    THEN luPc' = "failed" /\ UNCHANGED luAttempt
    ELSE luPc' = LoopHead(luAttempt + 1) /\ luAttempt' = luAttempt + 1

\* dev, unlockErr = luks.Open(device)
LuOpen ==
    /\ luPc = "open"
    /\ \E ok \in BOOLEAN :
         /\ luTrace' = Append(luTrace, Step("open", ok))
         /\ IF ok
            THEN /\ luPc' = "unlock"
                 /\ luUnlockErr' = NoErr
                 /\ UNCHANGED <<luAttempt, logRecords>>
            ELSE /\ luUnlockErr' = OpenErr
                 /\ logRecords' = WithRecords(luArgs.logger,
                        {LogRecord("warn", "Failed to open device",
                                   {IntField("attempt", luAttempt + 1),
                                    IntField("max_retries", LuksMaxRetries),
                                    StrField("device", luArgs.device),
                                    ErrField(OpenErr)})})
                 /\ AttemptFailed
    /\ UNCHANGED <<NotLuks, luVersion, luArgs, luHost, luRet, passUsed>>

\* unlockErr = dev.Unlock(0, []byte(password), mapper), then dev.Close()
LuUnlockSlot ==
    /\ luPc = "unlock"
    /\ passUsed' = passUsed \cup {luArgs.password}
    /\ \E ok \in (IF luArgs.password = luHost.key THEN BOOLEAN ELSE {FALSE}) :
         /\ luTrace' = luTrace \o <<Step("unlock", ok), Step("close", TRUE)>>
         /\ IF ok
            THEN /\ luPc' = "after"
                 /\ luUnlockErr' = NoErr
                 /\ logRecords' = WithRecords(luArgs.logger,
                        {LogRecord("debug", "Successfully unlocked",
                                   {StrField("device", luArgs.device)})})
                 /\ UNCHANGED luAttempt
            ELSE /\ luUnlockErr' = SlotErr
                 /\ logRecords' = WithRecords(luArgs.logger,
                        {LogRecord("warn", "Failed to unlock device",
                                   {IntField("attempt", luAttempt + 1),
                                    IntField("max_retries", LuksMaxRetries),
                                    StrField("device", luArgs.device),
                                    ErrField(SlotErr)})})
                 /\ AttemptFailed
    /\ UNCHANGED <<NotLuks, luVersion, luArgs, luHost, luRet>>

\* version 1: time.Sleep, UdevAdmSettle(logger, 10s), continue
LuSettleFailed ==
    /\ luPc = "failed"
    /\ \E ok \in BOOLEAN : luTrace' = Append(luTrace, Step("settle 10s", ok))
    /\ luAttempt' = luAttempt + 1
    /\ luPc' = LoopHead(luAttempt + 1)
    /\ UNCHANGED <<NotLuks, luVersion, luArgs, luHost, luUnlockErr, luRet, logRecords, passUsed>>

\* if unlockErr != nil { return "LUKS unlock failed after 3 attempts" }
LuGiveUp ==
    /\ luPc = "after" /\ luUnlockErr # NoErr
    /\ luRet' = Errorf("LUKS unlock failed after %d attempts", <<"3">>, luUnlockErr)
    /\ luTrace' = DeferredClose(luTrace)
    /\ luPc' = "done"
    /\ UNCHANGED <<NotLuks, luVersion, luArgs, luHost, luAttempt, luUnlockErr, logRecords, passUsed>>

\* udevAdmSettle(logger, 30s)
LuSettle ==
    /\ luPc = "after" /\ luUnlockErr = NoErr
    /\ \E ok \in BOOLEAN :
         /\ luTrace' = Append(luTrace, Step("settle 30s", ok))
         /\ logRecords' = WithRecords(luArgs.logger /\ ~ok,
                {LogRecord("warn", "UdevAdmSettle failed",
                           {ErrField(SettleErr), StrField("device", luArgs.device)})})
    /\ luPc' = "dmsetup"
    /\ UNCHANGED <<NotLuks, luVersion, luArgs, luHost, luAttempt, luUnlockErr, luRet, passUsed>>

DmsetupPolls == 5

\* the polls of dmsetup made so far
Polls(trace) == Cardinality({i \in 1..Len(trace) : trace[i].step = "dmsetup ls"})

\* for i := 0; i < 5; i++ { if dmErr == nil && strings.Contains(dmOutput, mapper) { break } ... }
LuDmsetup ==
    /\ luPc = "dmsetup"
    /\ \E listed \in BOOLEAN :
         /\ luTrace' = Append(luTrace, Step("dmsetup ls", listed))
         /\ luPc' = IF listed \/ Polls(luTrace) + 1 >= DmsetupPolls THEN "verify" ELSE "dmsetup"
    /\ UNCHANGED <<NotLuks, luVersion, luArgs, luHost, luAttempt, luUnlockErr, luRet, logRecords, passUsed>>

\* variant: a mapper that dmsetup never listed is an error
LuVerify_FailsUnlisted ==
    /\ luPc = "verify"
    /\ \E node \in BOOLEAN :
         /\ luTrace' = DeferredClose(Append(luTrace, Step("stat mapper", node)))
         /\ luHost' = [luHost EXCEPT !.mapper = node]
         /\ luRet' = IF node /\ luTrace[Len(luTrace)].ok THEN NoErr
                     ELSE Errorf("mapper device %s not created after unlock", mapperPath, StatErr)
    /\ luPc' = "done"
    /\ UNCHANGED <<NotLuks, luVersion, luArgs, luAttempt, luUnlockErr, logRecords, passUsed>>

\* if _, err := os.Stat(mapperPath); err != nil { return "mapper device not created" }
LuVerify ==
    /\ luPc = "verify"
    /\ \E node \in BOOLEAN :
         /\ luTrace' = DeferredClose(Append(luTrace, Step("stat mapper", node)))
         /\ luHost' = [luHost EXCEPT !.mapper = node]
         /\ luRet' = IF node THEN NoErr
                     ELSE Errorf("mapper device %s not created after unlock", mapperPath, StatErr)
    /\ luPc' = "done"
    /\ UNCHANGED <<NotLuks, luVersion, luArgs, luAttempt, luUnlockErr, logRecords, passUsed>>

NextLuks ==
    \/ LuStatDevice
    \/ LuStatMapper
    \/ LuSettleRetry
    \/ LuOpen
    \/ LuUnlockSlot
    \/ LuSettleFailed
    \/ LuGiveUp
    \/ LuSettle
    \/ LuDmsetup
    \/ LuVerify

SpecLuks == InitLuks /\ [][NextLuks]_vars

\* the state of /dev/mapper/<mapper> when luksUnlock was called
MapperExisted == IF Len(luTrace) >= 2 THEN luTrace[2].ok ELSE luHost.mapper

StepsOf(trace, name) == {i \in 1..Len(trace) : trace[i].step = name}

HeaderUntouched == StepsOf(luTrace, "open") = {} /\ StepsOf(luTrace, "unlock") = {}

\* C29 as stated: luksUnlock returns success, without opening the LUKS
\* header, whenever /dev/mapper/<mapper> already exists, whatever the state
\* of the device node.
C29_MapperExistsIsSuccess ==
    (luPc = "done" /\ MapperExisted) => (luRet = NoErr /\ HeaderUntouched)

\* C29: whenever /dev/mapper/<mapper> already exists luksUnlock returns
\* without opening the LUKS header: success when the device node is
\* accessible, the device-not-accessible error when it is not.
C29_MapperExistsSkipsTheHeader ==
    (luPc = "done" /\ MapperExisted) =>
        /\ HeaderUntouched
        /\ passUsed = {}
        /\ IF luHost.device
           THEN luRet = NoErr
           ELSE luRet # NoErr /\ luRet[1].msg = "device not accessible"

C29_Witness ==
    /\ luPc = "done"
    /\ MapperExisted
    /\ luHost.device
    /\ luRet = NoErr
    /\ luTrace = <<Step("stat device", TRUE), Step("stat mapper", TRUE)>>
    /\ luArgs.password # luHost.key

\* a failed attempt: luks.Open failed, or dev.Unlock failed and the handle was closed
FailedBefore(trace, i) ==
    \/ i > 1 /\ trace[i - 1].step = "open" /\ ~trace[i - 1].ok
    \/ i > 2 /\ trace[i - 1].step = "close"
             /\ trace[i - 2].step = "unlock" /\ ~trace[i - 2].ok

FailedAttempts(trace) ==
    {i \in 1..Len(trace) : trace[i].step \in {"open", "unlock"} /\ ~trace[i].ok}

\* C30: luksUnlock opens the header at most 3 times; every 10-second settle
\* comes right after a failed attempt and right before the next attempt, and
\* two successive attempts have exactly one settle between them; when two
\* attempts fail and the third succeeds the header is unlocked with exactly
\* two such settles, and three failed attempts give the unlock error.
C30_SettleOnlyBetweenAttempts ==
    luPc = "done" =>
        LET opens == StepsOf(luTrace, "open")
            settles == StepsOf(luTrace, "settle 10s")
            failed == FailedAttempts(luTrace)
        IN  /\ Cardinality(opens) <= 3
            /\ Cardinality(StepsOf(luTrace, "unlock")) <= 3
            /\ \A i \in settles :
                 /\ FailedBefore(luTrace, i)
                 /\ i < Len(luTrace) /\ luTrace[i + 1].step = "open"
            /\ \A i, j \in opens :
                 (i < j /\ ~\E k \in opens : i < k /\ k < j) =>
                     Cardinality({k \in settles : i < k /\ k < j}) = 1
            /\ (Cardinality(failed) = 2 /\ Cardinality(opens) = 3) =>
                 /\ luUnlockErr = NoErr
                 /\ Cardinality(settles) = 2
                 /\ StepsOf(luTrace, "settle 30s") # {}
                 /\ (luHost.mapper => luRet = NoErr)
            /\ Cardinality(failed) = 3 =>
                 /\ luRet # NoErr
                 /\ luRet[1].msg = "LUKS unlock failed after %d attempts"

(***************************************************************************)
(* One partition through Encrypt or Unlock of a strategy, with the log     *)
(* records written on the way (kcrypt/encryptor.go, kcrypt/lock.go).       *)
(***************************************************************************)
MaxTries == 2

NoResponse == [present |-> FALSE, Data |-> NoPass, Error |-> ""]

\* the partition found for the label
PsLabel == <<"COS_PERSISTENT">>
PsInfo ==
    [DevicePath |-> DevPath("sda1"), PartitionName |-> <<"sda1">>,
     Name |-> <<"sda1">>, FilesystemLabel |-> PsLabel, UUID |-> <<"uuid-1">>]

PassInputs ==
    [op : {"Encrypt", "Unlock"}, name : Strategies, label : {PsLabel},
     server : {<< >>, <<"kms.local">>}, hasConfig : BOOLEAN]

\* the error a plugin reports, as a Go error
PluginErr(r) == Errorf("failed discovery: %s", <<r.Error>>, NoErr)
PublishErr == Errorf("publish: plugin failed to run", << >>, NoErr)
CmdErr == Errorf("exit status 1", << >>, NoErr)
CmdOut == <<"output">>

\* encryptor.go:224-227
RequestingRecord(b) ==
    LogRecord("info", "Requesting password for partition",
              {StrField("partition_name", b.Name),
               StrField("partition_label", b.FilesystemLabel),
               StrField("partition_uuid", b.UUID)})

\* variant: the handler logs what it received
ReceivedPasswordRecord_Data(password, b) ==
    LogRecord("info", "DECRYPTION: Received password from plugin",
              {StrField("password", password), StrField("partition", b.Name)})

\* encryptor.go:237-240
ReceivedPasswordRecord(password, b) ==
    LogRecord("info", "DECRYPTION: Received password from plugin",
              {IntField("password_length", Len(password)), StrField("partition", b.Name)})

\* encryptor.go:179-183, lock.go:54-57
ReceivedPassphraseRecord(msg, label, passphrase) ==
    LogRecord("info", msg,
              {StrField("partition", label), IntField("passphrase_length", Len(passphrase))})

ErrRecord(level, msg, err) == LogRecord(level, msg, {ErrField(err)})

PartitionErrRecord(level, msg, label, err) ==
    LogRecord(level, msg, {StrField("partition", label), ErrField(err)})

InitPass ==
    /\ SelectorIdle /\ OpsIdle /\ GhwIdle /\ FindIdle /\ UaIdle
    /\ MergeIdle /\ ScanIdle /\ TpmIdle /\ ExIdle /\ LateIdle
    \* only getPasswordFromChallenger, of the Remote KMS strategy, reads the config
    /\ psIn \in {i \in PassInputs : /\ (i.server # << >>) => i.hasConfig
                                   /\ i.name # RemoteKMS => ~i.hasConfig}
    /\ luVersion \in {1, 2}
    /\ luArgs = << >>
    /\ luHost \in LuksHosts
    \* Encrypt never calls luksUnlock: one version and one host stand for all
    /\ psIn.op = "Encrypt" => (luVersion = 2 /\ luHost.device /\ ~luHost.mapper)
    /\ luPc = "idle"
    /\ luAttempt = 0
    /\ luUnlockErr = NoErr
    /\ luTrace = << >>
    /\ luRet = NoErr
    /\ logRecords = {}
    /\ passUsed = {}
    /\ psPc = "start"
    /\ psAttempt = 0
    /\ psResp = NoResponse
    /\ psHandled = {}
    /\ psPassword = NoPass
    /\ psErr = NoErr
    /\ psLastErr = NoErr
    /\ psPass = NoPass
    /\ psRet = << >>

luksCall == <<luVersion, luArgs, luHost, luPc, luAttempt, luUnlockErr, luTrace, luRet>>

Log(recs) == logRecords' = logRecords \cup recs

PsEnd(how, err) ==
    /\ psPc' = "end"
    /\ psRet' = [how |-> how, err |-> err]

\* return fmt.Errorf("failed to encrypt partition %s: %w", partition, err)
EncryptFails(err) ==
    PsEnd("returned", Errorf("failed to encrypt partition %s", psIn.label, err))

\* lastErr = ...; continue
Continue(err) ==
    /\ psLastErr' = err
    /\ psAttempt' = psAttempt + 1
    /\ psPc' = "loop"
    /\ UNCHANGED psRet

(***************************************************************************)
(* getPasswordFromChallenger (encryptor.go 218-277) and the handler that   *)
(* Bus.Initialize registers (bus/bus.go 47-74).                            *)
(***************************************************************************)
\* log, bus.Reload, bus.Manager.Response, the payload from the config
PsRequest ==
    /\ psPc = "request"
    /\ psPassword' = NoPass
    /\ psErr' = NoErr
    /\ psResp' = NoResponse
    /\ psHandled' = {}
    /\ \E scanned \in BOOLEAN :
         Log({RequestingRecord(PsInfo),
              IF psIn.hasConfig \/ scanned
              THEN LogRecord("info", "Using provided kcrypt config",
                             {StrField("challenger_server", psIn.server)})
              ELSE LogRecord("info", "No kcrypt config provided, using local encryption", {})})
    /\ psPc' = "publish"
    /\ UNCHANGED <<NotPath, luksCall, passUsed, psIn, psAttempt, psLastErr, psPass, psRet>>

\* bus.Manager.Publish: the plugin fails to run, or it answers
PsPublish ==
    /\ psPc = "publish"
    /\ \E r \in PluginResponses :
         /\ psResp' = r
         /\ psPc' = IF r.present THEN "handlers" ELSE "published"
    /\ UNCHANGED <<NotPath, luksVars, psIn, psAttempt, psHandled, psPassword, psErr,
                   psLastErr, psPass, psRet>>

\* the handler of Bus.Initialize: os.Exit(1) on an errored response
PsBusHandler ==
    /\ psPc = "handlers" /\ "bus" \notin psHandled
    /\ IF BusHandlerExits(psResp)
       THEN /\ Log({LogRecord("debug", "Received event from provider", {}),
                    ErrRecord("error", "Error in provider",
                              Errorf("%s", <<psResp.Error>>, NoErr))})
            /\ PsEnd("exited", NoErr)
            /\ UNCHANGED psHandled
       ELSE /\ Log({LogRecord("debug", "Received event from provider", {})})
            /\ psHandled' = psHandled \cup {"bus"}
            /\ psPc' = IF psHandled = {"password"} THEN "published" ELSE "handlers"
            /\ UNCHANGED psRet
    /\ UNCHANGED <<NotPath, luksCall, passUsed, psIn, psAttempt, psResp, psPassword, psErr,
                   psLastErr, psPass>>

\* the handler of getPasswordFromChallenger: password = r.Data, err on r.Errored()
PsPasswordHandler ==
    /\ psPc = "handlers" /\ "password" \notin psHandled
    /\ psPassword' = psResp.Data
    /\ IF psResp.Error # ""
       THEN /\ psErr' = PluginErr(psResp)
            /\ Log({ErrRecord("error", "Plugin returned error", PluginErr(psResp))})
       ELSE /\ UNCHANGED psErr
            /\ Log({ReceivedPasswordRecord(psResp.Data, PsInfo)})
    /\ psHandled' = psHandled \cup {"password"}
    /\ psPc' = IF psHandled = {"bus"} THEN "published" ELSE "handlers"
    /\ UNCHANGED <<NotPath, luksCall, passUsed, psIn, psAttempt, psResp, psLastErr, psPass, psRet>>

\* what getPasswordFromChallenger returns once Publish is back:
\* _, err = bus.Manager.Publish(...) overwrites the err of the handler
Returned(password, handlerErr, publishErr) ==
    IF publishErr # NoErr
    THEN [password |-> password, err |-> publishErr,
          logs |-> {ErrRecord("error", "Failed to publish event to bus", publishErr)}]
    ELSE IF password = NoPass
    THEN [password |-> password, err |-> Errorf("received empty password", << >>, NoErr),
          logs |-> {LogRecord("error", "Received empty password from plugin", {})}]
    ELSE [password |-> password, err |-> NoErr,
          logs |-> {LogRecord("info", "Password retrieval successful", {})}]

\* back in the caller: unlockPartition (encryptor.go 106-114) or luksify (173-183)
PsPublished ==
    /\ psPc = "published"
    /\ \E publishErr \in (IF psResp.present THEN {NoErr} ELSE {NoErr, PublishErr}) :
         LET g == Returned(psPassword, psErr, publishErr)
         IN  /\ psErr' = g.err
             /\ IF psIn.op = "Unlock"
                THEN IF g.err # NoErr
                     THEN /\ Log(g.logs \cup
                                 {PartitionErrRecord("warn", "Failed to get password, will retry",
                                      psIn.label, Errorf("failed to get password", << >>, g.err))})
                          /\ Continue(Errorf("failed to get password", << >>, g.err))
                          /\ UNCHANGED psPass
                     ELSE /\ Log(g.logs)
                          /\ psPass' = g.password
                          /\ psPc' = "luksUnlock"
                          /\ UNCHANGED <<psAttempt, psLastErr, psRet>>
                ELSE IF g.err # NoErr
                     THEN /\ Log(g.logs \cup {ErrRecord("error", "get password", g.err)})
                          /\ EncryptFails(g.err)
                          /\ UNCHANGED <<psAttempt, psLastErr, psPass>>
                     ELSE /\ Log(g.logs \cup
                                 {ReceivedPassphraseRecord(
                                      "ENCRYPTION: Received passphrase from kcrypt-challenger",
                                      psIn.label, g.password)})
                          /\ psPass' = g.password
                          /\ psPc' = "unmount"
                          /\ UNCHANGED <<psAttempt, psLastErr, psRet>>
    /\ UNCHANGED <<NotPath, luksCall, passUsed, psIn, psResp, psHandled, psPassword>>
(***************************************************************************)
(* unlockPartition of the three strategies (encryptor.go 75-139, 324-377,  *)
(* 446-522).                                                               *)
(***************************************************************************)
MethodFields == {StrField("method", <<psIn.name>>), StrField("partitions", psIn.label)}

\* Unlock: the first log record, then the loop over the partitions
PsUnlockStart ==
    /\ psPc = "start" /\ psIn.op = "Unlock"
    /\ Log({LogRecord("info", "Unlocking encrypted partitions", MethodFields)})
    /\ psPc' = "loop"
    /\ UNCHANGED <<NotPath, luksCall, passUsed, psIn, psAttempt, psResp, psHandled, psPassword,
                   psErr, psLastErr, psPass, psRet>>

\* the step that follows the Locked() check, per strategy
AfterLocked ==
    CASE psIn.name = RemoteKMS -> "request"
      [] psIn.name = TPMWithPCR -> "attach"
      [] psIn.name = LocalTPMNV -> "tpmpass"

\* for attempt := 0; attempt < 10; attempt++ { findPartitionByLabel, Locked() }
PsLoop ==
    /\ psPc = "loop" /\ psAttempt < MaxTries
    /\ psPass' = NoPass
    /\ IF psAttempt >= MaxAttempts
       THEN /\ PsEnd("returned",
                     Errorf("failed to unlock partition %s", psIn.label,
                            Errorf("failed after 10 attempts", << >>, psLastErr)))
            /\ UNCHANGED <<logRecords, psAttempt, psLastErr>>
       ELSE \E hit \in BOOLEAN :
              LET retrying ==
                      IF psAttempt > 0
                      THEN {LogRecord("info", "Retrying unlock",
                                      {StrField("partition", psIn.label),
                                       IntField("attempt", psAttempt)})}
                      ELSE {}
                  notFound == Errorf("partition not found", << >>, NoErr)
              IN  IF ~hit
                  THEN /\ Log(retrying \cup
                              {PartitionErrRecord("debug", "Failed to find partition, will retry",
                                                  psIn.label, notFound)})
                       /\ Continue(notFound)
                  ELSE IF luHost.mapper
                  THEN /\ Log(retrying \cup
                              {LogRecord("info", "All partitions unlocked successfully", {})})
                       /\ PsEnd("returned", NoErr)
                       /\ UNCHANGED <<psAttempt, psLastErr>>
                  ELSE /\ Log(retrying \cup
                              (IF psIn.name = RemoteKMS
                               THEN {LogRecord("debug", "partition name: ",
                                               {StrField("message", PsInfo.Name)})}
                               ELSE {}))
                       /\ psPc' = AfterLocked
                       /\ UNCHANGED <<psAttempt, psLastErr, psRet>>
    /\ UNCHANGED <<NotPath, luksCall, passUsed, psIn, psResp, psHandled, psPassword, psErr>>

\* the passphrases the TPM NV memory may hold
StoredPassphrases == {PluginKey, OtherKey}

\* getOrCreateLocalTPMPassphrase (encryptor.go 487-495), GetOrCreateLocalTPMPassphrase (lock.go 46-57)
PsTpmPass ==
    /\ psPc = "tpmpass"
    /\ \E ok \in BOOLEAN, p \in StoredPassphrases :
         LET tpmErr == Errorf("tpm: read blob", << >>, NoErr)
             start == IF psIn.op = "Encrypt"
                      THEN {LogRecord("info", "Encrypting with local TPM NV passphrase",
                                      {StrField("partition", psIn.label)})}
                      ELSE {}
         IN  IF ok
             THEN /\ psPass' = p
                  /\ Log(start \cup
                         (IF psIn.op = "Encrypt"
                          THEN {ReceivedPassphraseRecord(
                                    "Retrieved passphrase from local TPM NV memory", psIn.label, p)}
                          ELSE {}))
                  /\ psPc' = IF psIn.op = "Encrypt" THEN "settle" ELSE "luksUnlock"
                  /\ UNCHANGED <<psAttempt, psLastErr, psRet>>
             ELSE /\ UNCHANGED psPass
                  /\ IF psIn.op = "Encrypt"
                     THEN /\ Log(start)
                          /\ EncryptFails(Errorf("failed to get/create local TPM passphrase",
                                                 << >>, tpmErr))
                          /\ UNCHANGED <<psAttempt, psLastErr>>
                     ELSE LET wrapped == Errorf("failed to get passphrase from local TPM",
                                                << >>, tpmErr)
                          IN  /\ Log({PartitionErrRecord("warn",
                                          "Failed to get local TPM passphrase, will retry",
                                          psIn.label, wrapped)})
                              /\ Continue(wrapped)
    /\ UNCHANGED <<NotPath, luksCall, passUsed, psIn, psResp, psHandled, psPassword, psErr>>

\* systemd-cryptsetup attach <name> <path> - tpm2-device=auto
PsAttach ==
    /\ psPc = "attach"
    /\ \E ok \in BOOLEAN :
         IF ok
         THEN /\ luHost' = [luHost EXCEPT !.mapper = TRUE]
              /\ psPc' = "verify"
              /\ UNCHANGED <<logRecords, psAttempt, psLastErr, psRet>>
         ELSE LET wrapped == Errorf("TPM unlock failed: %w (output: %s)", CmdOut, CmdErr)
              IN  /\ Log({PartitionErrRecord("warn", "TPM unlock failed, will retry",
                                             psIn.label, wrapped)})
                  /\ Continue(wrapped)
                  /\ UNCHANGED luHost
    /\ UNCHANGED <<NotPath, luVersion, luArgs, luPc, luAttempt, luUnlockErr, luTrace, luRet,
                   passUsed, psIn, psResp, psHandled, psPassword, psErr, psPass>>

\* err = luksUnlock(info.DevicePath, info.PartitionName, pass, &e.logger)
PsCallLuksUnlock ==
    /\ psPc = "luksUnlock"
    /\ luArgs' = [device |-> PsInfo.DevicePath, mapper |-> PsInfo.PartitionName,
                  password |-> psPass, logger |-> TRUE]
    /\ luPc' = "statDevice"
    /\ luAttempt' = 0
    /\ luUnlockErr' = NoErr
    /\ luTrace' = << >>
    /\ luRet' = NoErr
    /\ psPc' = "inLuks"
    /\ UNCHANGED <<NotPath, luVersion, luHost, logRecords, passUsed, psIn, psAttempt, psResp,
                   psHandled, psPassword, psErr, psLastErr, psPass, psRet>>

\* if err != nil { lastErr = "unlock failed: %w"; continue }
PsLuksReturned ==
    /\ psPc = "inLuks" /\ luPc = "done"
    /\ luPc' = "idle"
    \* the locals of the call are gone
    /\ luAttempt' = 0 /\ luUnlockErr' = NoErr /\ luTrace' = << >>
    /\ IF luRet # NoErr
       THEN LET wrapped == Errorf("unlock failed", << >>, luRet)
            IN  /\ Log({PartitionErrRecord("warn", "Unlock failed, will retry",
                                           psIn.label, wrapped)})
                /\ Continue(wrapped)
       ELSE /\ psPc' = "verify"
            /\ UNCHANGED <<logRecords, psAttempt, psLastErr, psRet>>
    /\ UNCHANGED <<NotPath, luVersion, luArgs, luHost, luRet,
                   passUsed, psIn, psResp, psHandled, psPassword, psErr, psPass>>

\* checkPath, _ := utils.SH("blkid -L <label>")
PsVerify ==
    /\ psPc = "verify"
    /\ \E visible \in BOOLEAN :
         IF visible
         THEN /\ Log({LogRecord("info", "Partition unlocked and verified",
                                {StrField("partition", psIn.label)}),
                      LogRecord("info", "All partitions unlocked successfully", {})})
              /\ PsEnd("returned", NoErr)
              /\ UNCHANGED <<psAttempt, psLastErr>>
         ELSE /\ Continue(Errorf("partition unlocked but not visible", << >>, NoErr))
              /\ UNCHANGED logRecords
    /\ UNCHANGED <<NotPath, luksCall, passUsed, psIn, psResp, psHandled, psPassword, psErr, psPass>>

(***************************************************************************)
(* Encrypt: luksify (encryptor.go 157-214), luksifyMeasurements (lock.go   *)
(* 264-347), EncryptWithLocalTPMPassphrase and luksifyWithPassphrase       *)
(* (lock.go 45-108).  luksifyMeasurements logs errors only.                *)
(***************************************************************************)
Verbose == psIn.name # TPMWithPCR

Records(recs) == Log(IF Verbose THEN recs ELSE {})

PsEncryptStart ==
    /\ psPc = "start" /\ psIn.op = "Encrypt"
    /\ Log({LogRecord("info", "Encrypting partitions", MethodFields),
            LogRecord("info", "Encrypting partition", {StrField("partition", psIn.label)})})
    /\ psPc' = IF psIn.name = LocalTPMNV THEN "tpmpass" ELSE "settle"
    /\ UNCHANGED <<NotPath, luksCall, passUsed, psIn, psAttempt, psResp, psHandled, psPassword,
                   psErr, psLastErr, psPass, psRet>>

\* UdevAdmSettle / udevAdmTrigger
PsSettle ==
    /\ psPc = "settle"
    /\ Records({LogRecord("info", "Running udevadm settle", {})})
    /\ \E ok \in BOOLEAN :
         IF ok THEN psPc' = "find" /\ UNCHANGED psRet
         ELSE EncryptFails(Errorf("udevadm settle failed: %v (output: %s)", CmdOut, CmdErr))
    /\ UNCHANGED <<NotPath, luksCall, passUsed, psIn, psAttempt, psResp, psHandled, psPassword,
                   psErr, psLastErr, psPass>>

\* findPartitionByLabel / findPartition; luksifyMeasurements then draws the passphrase
PsFind ==
    /\ psPc = "find"
    /\ \E hit \in BOOLEAN, seed \in Seeds :
         LET finding == LogRecord("info", "Finding partition", {StrField("label", psIn.label)})
             notFound == Errorf("partition not found", << >>, NoErr)
         IN  IF ~hit
             THEN /\ Records({finding, ErrRecord("error", "find partition", notFound)})
                  /\ EncryptFails(notFound)
                  /\ UNCHANGED psPass
             ELSE /\ Records({finding} \cup
                             (IF psIn.name = RemoteKMS
                              THEN {LogRecord("info", "Getting password from kcrypt-challenger",
                                              {StrField("partition", psIn.label)})}
                              ELSE {}))
                  /\ psPass' = IF psIn.name = TPMWithPCR
                               THEN getRandomString(RandomPassLen, seed) ELSE psPass
                  /\ psPc' = IF psIn.name = RemoteKMS THEN "request" ELSE "unmount"
                  /\ UNCHANGED psRet
    /\ UNCHANGED <<NotPath, luksCall, passUsed, psIn, psAttempt, psResp, psHandled, psPassword,
                   psErr, psLastErr>>

\* unmountIfMounted(device, logger)
PsUnmount ==
    /\ psPc = "unmount"
    /\ \E mounted \in BOOLEAN, ok \in BOOLEAN :
         LET device == PsInfo.DevicePath
             checking == IF Verbose
                         THEN {LogRecord("info", "Checking if device is mounted",
                                         {StrField("device", device)})}
                         ELSE {}
             unmounting == LogRecord("debug", "Device is mounted, unmounting before encryption",
                                     {StrField("device", device),
                                      StrField("mountpoint", <<"/", "oem">>)})
             err == Errorf("failed to unmount %s from %s", device, CmdErr)
         IN  IF ~mounted
             THEN Log(checking) /\ psPc' = "createLuks" /\ UNCHANGED psRet
             ELSE IF ok
             THEN /\ Log(checking \cup
                         {unmounting,
                          LogRecord("debug", "Successfully unmounted device",
                                    {StrField("device", device)})})
                  /\ psPc' = "createLuks"
                  /\ UNCHANGED psRet
             ELSE /\ Log(checking \cup {unmounting, ErrRecord("error", "unmount device", err)})
                  /\ EncryptFails(err)
    /\ UNCHANGED <<NotPath, luksCall, passUsed, psIn, psAttempt, psResp, psHandled, psPassword,
                   psErr, psLastErr, psPass>>

\* createLuks(device, pass, extraArgs...): the passphrase on standard input
PsCreateLuks ==
    /\ psPc = "createLuks"
    /\ passUsed' = passUsed \cup {psPass}
    /\ \E ok \in BOOLEAN :
         LET creating == LogRecord("info", "Creating LUKS container",
                                   {StrField("device", PsInfo.DevicePath)})
         IN  IF ok
             THEN /\ Records({creating})
                  /\ psPc' = IF psIn.name = TPMWithPCR THEN "enroll" ELSE "formatLuks"
                  /\ UNCHANGED psRet
             ELSE /\ Records({creating, ErrRecord("error", "create luks", CmdErr)})
                  /\ EncryptFails(CmdErr)
    /\ UNCHANGED <<NotPath, luksCall, psIn, psAttempt, psResp, psHandled, psPassword,
                   psErr, psLastErr, psPass>>

\* systemd-cryptenroll with PASSWORD=<pass> in its environment (lock.go 306-328)
PsEnroll ==
    /\ psPc = "enroll"
    /\ passUsed' = passUsed \cup {psPass}
    /\ \E ok \in BOOLEAN :
         LET running == LogRecord("debug", "running command",
                                  {StrField("args", <<"--tpm2-public-key-pcrs=11", "--tpm2-pcrs=">>
                                                    \o PsInfo.DevicePath)})
             output == LogRecord("debug", "debug from cryptenroll", {StrField("output", CmdOut)})
         IN  IF ok
             THEN Log({running, output}) /\ psPc' = "formatLuks" /\ UNCHANGED psRet
             ELSE /\ Log({running, output, ErrRecord("error", "Enrolling measurements", CmdErr)})
                  /\ EncryptFails(CmdErr)
    /\ UNCHANGED <<NotPath, luksCall, psIn, psAttempt, psResp, psHandled, psPassword,
                   psErr, psLastErr, psPass>>

\* the l.Debug() records of formatLuks up to the stage that fails
FormatRecords(stage) ==
    LET order == <<"unlock", "wait device", "format", "discards", "close">>
        last == CASE stage = "unlock" -> 1 [] stage = "wait" -> 2 [] stage = "mkfs" -> 3
                  [] stage = "refresh" -> 4 [] OTHER -> 5
    IN  {LogRecord("debug", order[i],
                   {StrField("device", PsInfo.DevicePath), StrField("name", PsInfo.Name),
                    StrField("mapper", MapperPathOf("sda1"))}) : i \in 1..last}

FormatErr(stage) ==
    CASE stage = "unlock" -> Errorf("unlock err", << >>, Errorf("LUKS unlock failed after %d attempts", <<"3">>, SlotErr))
      [] stage = "wait" -> Errorf("waitdevice err", << >>, Errorf("no device found %s", MapperPathOf("sda1"), NoErr))
      [] stage = "mkfs" -> Errorf("mkfs err: %w, out: %s", CmdOut, CmdErr)
      [] stage = "refresh" -> Errorf("refresh err: %w, out: %s", CmdOut, CmdErr)
      [] stage = "close" -> Errorf("lock err: %w, out: %s", CmdOut, CmdErr)
      [] OTHER -> NoErr

\* formatLuks(device, name, mapper, label, pass, logger), and the end of luksify
PsFormatLuks ==
    /\ psPc = "formatLuks"
    /\ passUsed' = passUsed \cup {psPass}
    /\ \E stage \in FormatStages \cup {"unlock"} :
         LET formatting == IF Verbose
                           THEN {LogRecord("info", "Formatting LUKS container",
                                           {StrField("device", PsInfo.DevicePath),
                                            StrField("label", psIn.label)})}
                           ELSE {}
         IN  IF stage # "ok"
             THEN /\ Log(formatting \cup FormatRecords(stage)
                         \cup {ErrRecord("error", "format luks", FormatErr(stage))})
                  /\ EncryptFails(FormatErr(stage))
             ELSE IF psIn.name = TPMWithPCR
             THEN /\ Log(FormatRecords(stage))
                  /\ psPc' = "wipe"
                  /\ UNCHANGED psRet
             ELSE /\ Log(formatting \cup FormatRecords(stage) \cup
                         {LogRecord("info", "Partition encryption completed",
                                    {StrField("label", psIn.label)}),
                          LogRecord("info", "Successfully encrypted partition",
                                    {StrField("partition", psIn.label)})})
                  /\ PsEnd("returned", NoErr)
    /\ UNCHANGED <<NotPath, luksCall, psIn, psAttempt, psResp, psHandled, psPassword,
                   psErr, psLastErr, psPass>>

\* systemd-cryptenroll --wipe-slot=password <device>
PsWipeSlot ==
    /\ psPc = "wipe"
    /\ \E ok \in BOOLEAN :
         IF ok
         THEN /\ Log({LogRecord("info", "Successfully encrypted partition",
                                {StrField("partition", psIn.label)})})
              /\ PsEnd("returned", NoErr)
         ELSE /\ Log({LogRecord("error", "Removing password",
                                {ErrField(CmdErr), StrField("out", CmdOut)})})
              /\ EncryptFails(CmdErr)
    /\ UNCHANGED <<NotPath, luksCall, passUsed, psIn, psAttempt, psResp, psHandled, psPassword,
                   psErr, psLastErr, psPass>>

NextPass ==
    \/ PsUnlockStart
    \/ PsLoop
    \/ PsRequest
    \/ PsPublish
    \/ PsBusHandler
    \/ PsPasswordHandler
    \/ PsPublished
    \/ PsTpmPass
    \/ PsAttach
    \/ PsCallLuksUnlock
    \/ PsLuksReturned
    \/ PsVerify
    \/ PsEncryptStart
    \/ PsSettle
    \/ PsFind
    \/ PsUnmount
    \/ PsCreateLuks
    \/ PsEnroll
    \/ PsFormatLuks
    \/ PsWipeSlot
    \/ NextLuks

SpecPass == InitPass /\ [][NextPass]_vars

GoodResponse(r) == r.present /\ r.Error = "" /\ r.Data # NoPass

\* C26: on the Remote KMS paths the strategy holds a passphrase only if the
\* response of the plugin carries no error and non-empty data, and then it
\* is that data; after a response with an error no passphrase is held and
\* the process ends in the handler; a response without error and with empty
\* data makes the request return the empty-password error.
C26_PassphraseOnlyFromGoodResponse ==
    psIn.name = RemoteKMS =>
        /\ psPass # NoPass => (GoodResponse(psResp) /\ psPass = psResp.Data)
        /\ NoPass \notin passUsed
        /\ luPc # "idle" => luArgs.password = psPass
        /\ psResp.Error # "" =>
             /\ psPass = NoPass
             /\ psPc \in {"handlers", "end"}
             /\ psPc = "end" => psRet = [how |-> "exited", err |-> NoErr]
        /\ (psResp.present /\ psResp.Error = "" /\ psResp.Data = NoPass
                /\ psPc \notin {"handlers", "published"}) =>
             /\ psErr = Errorf("received empty password", << >>, NoErr)
             /\ psPass = NoPass

C26_Witness ==
    /\ psIn.name = RemoteKMS /\ psIn.op = "Unlock"
    /\ GoodResponse(psResp)
    /\ psPass = PluginKey
    /\ PluginKey \in passUsed
    /\ psPc = "end" /\ psRet = [how |-> "returned", err |-> NoErr]

\* every passphrase a run can see: from the plugin, from the TPM, drawn at random
Secrets ==
    {PluginKey, OtherKey} \cup {getRandomString(RandomPassLen, seed) : seed \in Seeds}

Leaks(rec, p) ==
    \E f \in rec.fields :
        \/ f.kind = "Str" /\ Contains(f.str, p)
        \/ f.kind = "Err" /\ \E i \in 1..Len(f.err) : Contains(f.err[i].arg, p)

LengthFields == {"password_length", "passphrase_length"}

\* C27: no log record written on a path of Encrypt or Unlock of any
\* strategy holds a passphrase in a field or in an error; what is logged of
\* a passphrase is its length.
C27_NoPassphraseInLogs ==
    \A rec \in logRecords :
        /\ \A p \in Secrets : ~Leaks(rec, p)
        /\ \A f \in rec.fields :
             f.name \in LengthFields =>
                 (f.kind = "Int" /\ \E p \in Secrets \cup {NoPass} : f.int = Len(p))

C27_Witness ==
    /\ psIn.name = RemoteKMS /\ psIn.op = "Encrypt"
    /\ psPc = "end" /\ psRet = [how |-> "returned", err |-> NoErr]
    /\ psPass = PluginKey /\ psPass \in passUsed
    /\ ReceivedPasswordRecord(psPass, PsInfo) \in logRecords
    /\ ReceivedPassphraseRecord("ENCRYPTION: Received passphrase from kcrypt-challenger",
                                psIn.label, psPass) \in logRecords

(***************************************************************************)
(* C31: the end of luksUnlock.                                             *)
(***************************************************************************)
\* the header was opened and the passphrase accepted
Unlocked(trace) == \E i \in StepsOf(trace, "unlock") : trace[i].ok

MapperNotCreated == Errorf("mapper device %s not created after unlock", mapperPath, StatErr)

\* C31: when luksUnlock has returned, success implies that the mapper node
\* exists; after a successful open-and-unlock the 30-second settle is
\* followed by 1 to 5 polls of dmsetup, a poll follows only polls that did
\* not list the mapper, and whatever the settle and the polls said the call
\* returns success when the final stat finds the node and the
\* mapper-not-created error when it does not.
C31_SuccessOnlyWithMapper ==
    luPc = "done" =>
        /\ luRet = NoErr => luHost.mapper
        /\ Unlocked(luTrace) =>
             LET polls == StepsOf(luTrace, "dmsetup ls")
                 settles == StepsOf(luTrace, "settle 30s")
             IN  /\ Cardinality(settles) = 1
                 /\ Cardinality(polls) \in 1..DmsetupPolls
                 /\ \A i \in polls : \A j \in settles : j < i
                 /\ \A i \in polls : \A j \in polls : j < i => ~luTrace[j].ok
                 /\ luRet = IF luHost.mapper THEN NoErr ELSE MapperNotCreated
        /\ luRet = MapperNotCreated => (Unlocked(luTrace) /\ ~luHost.mapper)

\* a failed settle and five polls that never list the mapper, and still success
C31_Witness ==
    /\ luPc = "done" /\ luRet = NoErr /\ luHost.mapper
    /\ Unlocked(luTrace)
    /\ \E i \in StepsOf(luTrace, "settle 30s") : ~luTrace[i].ok
    /\ Cardinality(StepsOf(luTrace, "dmsetup ls")) = DmsetupPolls
    /\ \A i \in StepsOf(luTrace, "dmsetup ls") : ~luTrace[i].ok

(***************************************************************************)
(* formatLuks and waitDevice, step by step (kcrypt/lock.go 349-421).  The  *)
(* luksUnlock it calls is the one above, without a logger.                 *)
(***************************************************************************)
WaitAttempts == 10

\* l := logger.Logger.With().Str("device", device).Str("name", name).Str("mapper", mapper)
FmRecord(msg) ==
    LogRecord("debug", msg,
              {StrField("device", luArgs.device), StrField("name", luArgs.mapper),
               StrField("mapper", mapperPath)})

InitFormat ==
    /\ SelectorIdle /\ OpsIdle /\ GhwIdle /\ FindIdle /\ UaIdle
    /\ MergeIdle /\ ScanIdle /\ TpmIdle /\ ExIdle /\ PassIdle /\ FmtRestIdle
    /\ luVersion \in {1, 2}
    /\ luArgs \in {a \in LuksArgs : ~a.logger}
    /\ luHost \in LuksHosts
    /\ luPc = "idle"
    /\ luAttempt = 0
    /\ luUnlockErr = NoErr
    /\ luTrace = << >>
    /\ luRet = NoErr
    /\ logRecords = {}
    /\ passUsed = {}
    /\ fmPc = "start"
    /\ fmTries = 0
    /\ fmTrace = << >>
    /\ fmRet = NoErr

NotFmt == <<selVars, opsVars, ghwVars, findVars, uaVars, mergeVars, scanVars, tpmVars, exVars, passVars, mntVars, busVars, pfVars, nmVars>>

\* return fmt.Errorf("<step> err: %w", err)
FmFail(step, msg, err) ==
    /\ fmTrace' = Append(fmTrace, Step(step, FALSE))
    /\ fmRet' = Errorf(msg, << >>, err)
    /\ fmPc' = "done"

\* variant: a failed step is recorded and the next step runs
FmStep_GoesOn(step, ok, msg, err, next) ==
    /\ fmTrace' = Append(fmTrace, Step(step, ok))
    /\ fmPc' = next
    /\ UNCHANGED fmRet

\* a command of formatLuks: on failure return its error, on success go on
FmStep(step, ok, msg, err, next) ==
    IF ok
    THEN /\ fmTrace' = Append(fmTrace, Step(step, TRUE))
         /\ fmPc' = next
         /\ UNCHANGED fmRet
    ELSE FmFail(step, msg, err)

\* l.Debug().Msg("unlock"); luksUnlock(device, name, pass)
FmUnlock ==
    /\ fmPc = "start"
    /\ logRecords' = logRecords \cup {FmRecord("unlock")}
    /\ luPc' = "statDevice"
    /\ fmPc' = "inLuks"
    /\ UNCHANGED <<NotFmt, luVersion, luArgs, luHost, luAttempt, luUnlockErr, luTrace, luRet,
                   passUsed, fmTries, fmTrace, fmRet>>

\* if err != nil { return "unlock err" }; l.Debug().Msg("wait device")
FmUnlocked ==
    /\ fmPc = "inLuks" /\ luPc = "done"
    /\ luPc' = "idle"
    /\ FmStep("unlock", luRet = NoErr, "unlock err", luRet, "wait")
    /\ logRecords' = IF luRet = NoErr THEN logRecords \cup {FmRecord("wait device")}
                     ELSE logRecords
    /\ UNCHANGED <<NotFmt, luVersion, luArgs, luHost, luAttempt, luUnlockErr, luTrace, luRet,
                   passUsed, fmTries>>

\* waitDevice, one round: udevadm settle, syscall.Sync, os.Lstat(mapper), time.Sleep
FmWait ==
    /\ fmPc = "wait"
    /\ \E settled \in BOOLEAN, present \in BOOLEAN :
         IF ~settled
         THEN /\ FmFail("udevadm settle", "waitdevice err", CmdErr)
              /\ UNCHANGED <<fmTries, logRecords>>
         ELSE IF present
         THEN /\ fmTrace' = fmTrace \o <<Step("udevadm settle", TRUE), Step("lstat", TRUE)>>
              /\ logRecords' = logRecords \cup {FmRecord("format")}
              /\ fmPc' = "mkfs"
              /\ UNCHANGED <<fmTries, fmRet>>
         ELSE /\ fmTries' = fmTries + 1
              /\ UNCHANGED logRecords
              /\ IF fmTries + 1 >= WaitAttempts
                 THEN /\ fmTrace' = fmTrace \o <<Step("udevadm settle", TRUE), Step("lstat", FALSE),
                                                 Step("wait", FALSE)>>
                      /\ fmRet' = Errorf("waitdevice err", << >>,
                                         Errorf("no device found %s", mapperPath, NoErr))
                      /\ fmPc' = "done"
                 ELSE /\ fmTrace' = fmTrace \o <<Step("udevadm settle", TRUE), Step("lstat", FALSE)>>
                      /\ UNCHANGED <<fmPc, fmRet>>
    /\ UNCHANGED <<NotFmt, luksCall, passUsed>>

\* utils.SH("mkfs.ext4 -L <label> <mapper>"); l.Debug().Msg("discards")
FmMkfs ==
    /\ fmPc = "mkfs"
    /\ \E ok \in BOOLEAN :
         /\ FmStep("mkfs.ext4", ok, "mkfs err: %w, out: %s", CmdErr, "refresh")
         /\ logRecords' = IF ok THEN logRecords \cup {FmRecord("discards")} ELSE logRecords
    /\ UNCHANGED <<NotFmt, luksCall, passUsed, fmTries>>

\* cryptsetup refresh --persistent --allow-discards <name>, the passphrase on stdin
FmRefresh ==
    /\ fmPc = "refresh"
    /\ passUsed' = passUsed \cup {luArgs.password}
    /\ \E ok \in BOOLEAN :
         /\ FmStep("cryptsetup refresh", ok, "refresh err: %w, out: %s", CmdErr, "close")
         /\ logRecords' = IF ok THEN logRecords \cup {FmRecord("close")} ELSE logRecords
    /\ UNCHANGED <<NotFmt, luksCall, fmTries>>

\* utils.SH("cryptsetup close <mapper>"); return nil
FmClose ==
    /\ fmPc = "close"
    /\ \E ok \in BOOLEAN :
         /\ FmStep("cryptsetup close", ok, "lock err: %w, out: %s", CmdErr, "done")
         /\ luHost' = IF ok THEN [luHost EXCEPT !.mapper = FALSE] ELSE luHost
    /\ UNCHANGED <<NotFmt, luVersion, luArgs, luPc, luAttempt, luUnlockErr, luTrace, luRet,
                   logRecords, passUsed, fmTries>>

NextFormat ==
    \/ FmUnlock
    \/ FmUnlocked
    \/ FmWait
    \/ FmMkfs
    \/ FmRefresh
    \/ FmClose
    \/ NextLuks

SpecFormat == InitFormat /\ [][NextFormat]_vars

\* the place of a step in the order of formatLuks
FmRank(step) ==
    CASE step = "unlock" -> 1
      [] step \in {"udevadm settle", "lstat", "wait"} -> 2
      [] step = "mkfs.ext4" -> 3
      [] step = "cryptsetup refresh" -> 4
      [] OTHER -> 5

\* a poll of waitDevice that does not find the node is not a failure of the step
FmFailedAt(trace, i) == ~trace[i].ok /\ trace[i].step # "lstat"

\* C32: formatLuks runs unlock, the wait for the mapper, mkfs.ext4,
\* cryptsetup refresh and cryptsetup close in this order, each command once
\* and only after everything before it succeeded; the wait polls the node at
\* most 10 times and mkfs directly follows a poll that found the node; a
\* failed step is the last step and makes formatLuks return an error; success
\* is returned exactly when the close succeeded.
C32_FormatOrder ==
    LET n == Len(fmTrace)
        at(step) == {i \in 1..n : fmTrace[i].step = step}
    IN  /\ \A i \in 1..n : \A j \in 1..n : i < j => FmRank(fmTrace[i].step) <= FmRank(fmTrace[j].step)
        /\ \A c \in {"unlock", "mkfs.ext4", "cryptsetup refresh", "cryptsetup close"} :
             Cardinality(at(c)) <= 1
        /\ n > 0 => fmTrace[1].step = "unlock"
        /\ Cardinality(at("lstat")) <= WaitAttempts
        /\ \A i \in at("mkfs.ext4") :
             i > 1 /\ fmTrace[i - 1] = Step("lstat", TRUE)
        /\ \A i \in at("cryptsetup refresh") : i > 1 /\ fmTrace[i - 1] = Step("mkfs.ext4", TRUE)
        /\ \A i \in at("cryptsetup close") : i > 1 /\ fmTrace[i - 1] = Step("cryptsetup refresh", TRUE)
        /\ \A i \in 1..n :
             FmFailedAt(fmTrace, i) => (i = n /\ fmPc = "done" /\ fmRet # NoErr)
        /\ fmPc = "done" =>
             (fmRet = NoErr <=> (n > 0 /\ fmTrace[n] = Step("cryptsetup close", TRUE)))

\* the node shows up at the tenth poll and the format goes through
C32_Witness ==
    /\ fmPc = "done" /\ fmRet = NoErr
    /\ Cardinality({i \in 1..Len(fmTrace) : fmTrace[i].step = "lstat"}) = WaitAttempts
    /\ \E i \in 1..Len(fmTrace) : fmTrace[i] = Step("mkfs.ext4", TRUE)
    /\ fmTrace[Len(fmTrace)] = Step("cryptsetup close", TRUE)

(***************************************************************************)
(* unmountIfMounted (kcrypt/lock.go 110-148) followed by createLuks, as    *)
(* every luksify runs them, on a mount table.                              *)
(***************************************************************************)
MaxMounts == 2

\* the device to encrypt: its path, and the spellings under which the mount
\* table may list it (a multipath partition is listed as /dev/mapper/<DM_NAME>)
MtDevices ==
    {[path |-> "/dev/sda1", names |-> {"/dev/sda1"}],
     [path |-> "/dev/dm-1", names |-> {"/dev/dm-1", "/dev/mapper/mpatha1"}]}

MtPoints == {"/oem", "/mnt"}

\* the lines of /proc/mounts: <device> <mount point> <type>, or a short line
MtLines ==
    {<<n, " ", p, " ", "ext4">> :
        n \in {"/dev/sda1", "/dev/sdb1", "/dev/mapper/mpatha1"}, p \in MtPoints}
    \cup {<<"/dev/sda1">>}

MtTables(maxMounts) == UNION {[1..n -> MtLines] : n \in 0..maxMounts}

\* strings.Fields(line)
Fields(line) ==
    LET keep == {i \in 1..Len(line) : line[i] # " "}
        nth[k \in 0..Len(line)] ==
            IF k = 0 THEN 0 ELSE CHOOSE i \in keep : i > nth[k - 1] /\ \A j \in keep : j > nth[k - 1] => i <= j
    IN  [k \in 1..Cardinality(keep) |-> line[nth[k]]]

\* the device is mounted: a line of the table names it and a mount point
IsMounted(table, d) ==
    \E i \in 1..Len(table) : Len(Fields(table[i])) >= 2 /\ Fields(table[i])[1] \in d.names

\* for scanner.Scan() { if len(fields) >= 2 && fields[0] == device { mountPoint = fields[1]; break } }
MountPointOf(table, devicePath) ==
    LET hits == {i \in 1..Len(table) :
                    Len(Fields(table[i])) >= 2 /\ Fields(table[i])[1] = devicePath}
    IN  IF hits = {} THEN ""
        ELSE Fields(table[CHOOSE i \in hits : \A j \in hits : i <= j])[2]

\* syscall.Unmount(mountPoint, 0): the newest mount on the mount point goes away
Unmount(table, mountPoint) ==
    LET hits == {i \in 1..Len(table) :
                    Len(Fields(table[i])) >= 2 /\ Fields(table[i])[2] = mountPoint}
        top == CHOOSE i \in hits : \A j \in hits : j <= i
    IN  IF hits = {} THEN table
        ELSE [k \in 1..(Len(table) - 1) |-> IF k < top THEN table[k] ELSE table[k + 1]]

InitMount ==
    /\ SelectorIdle /\ OpsIdle /\ GhwIdle /\ FindIdle /\ UaIdle
    /\ MergeIdle /\ ScanIdle /\ TpmIdle /\ ExIdle /\ LuksIdle /\ PassIdle /\ MntRestIdle
    /\ mtDev \in MtDevices
    /\ mtTable \in MtTables(MaxMounts)
    /\ mtPc = "unmount"
    /\ mtRet = NoErr
    /\ mtCreated = << >>

NotMnt == <<selVars, opsVars, ghwVars, findVars, uaVars, mergeVars, scanVars, tpmVars, exVars,
            luksVars, passVars, fmtVars, busVars, pfVars, nmVars>>

\* unmountIfMounted(device, logger), and the caller's `if err != nil { return "", err }`
MtUnmountIfMounted ==
    /\ mtPc = "unmount"
    /\ \E opened \in BOOLEAN, scanned \in BOOLEAN, unmounted \in BOOLEAN :
         LET mountPoint == MountPointOf(mtTable, mtDev.path)
         IN  IF ~opened
             THEN /\ mtRet' = Errorf("failed to open /proc/mounts", << >>, CmdErr)
                  /\ mtPc' = "done"
                  /\ UNCHANGED mtTable
             ELSE IF ~scanned
             THEN /\ mtRet' = Errorf("error reading /proc/mounts", << >>, CmdErr)
                  /\ mtPc' = "done"
                  /\ UNCHANGED mtTable
             ELSE IF mountPoint = ""
             THEN /\ mtPc' = "createLuks"
                  /\ UNCHANGED <<mtTable, mtRet>>
             ELSE IF ~unmounted
             THEN /\ mtRet' = Errorf("failed to unmount %s from %s", <<mtDev.path, mountPoint>>, CmdErr)
                  /\ mtPc' = "done"
                  /\ UNCHANGED mtTable
             ELSE /\ mtTable' = Unmount(mtTable, mountPoint)
                  /\ mtPc' = "createLuks"
                  /\ UNCHANGED mtRet
    /\ UNCHANGED <<NotMnt, mtDev, mtCreated>>

\* createLuks(device, pass, extraArgs...): cryptsetup luksFormat on the device
MtCreateLuks ==
    /\ mtPc = "createLuks"
    /\ mtCreated' = <<mtTable>>
    /\ \E ok \in BOOLEAN : mtRet' = IF ok THEN NoErr ELSE CmdErr
    /\ mtPc' = "done"
    /\ UNCHANGED <<NotMnt, mtDev, mtTable>>

NextMount ==
    \/ MtUnmountIfMounted
    \/ MtCreateLuks

SpecMount == InitMount /\ [][NextMount]_vars

\* C33: createLuks never runs on a device that the mount table still lists,
\* also for a device mounted at several mount points and for a multipath
\* partition listed under /dev/mapper/<DM_NAME>; a failed unmount ends the
\* encrypt before createLuks.
C33_CreateLuksNeverOnMounted ==
    mtCreated # << >> => ~IsMounted(mtCreated[1], mtDev)


(***************************************************************************)
(* Read failures below a disk.                                             *)
(***************************************************************************)
\* the directory (the holders directory of a multipath device) of disk n
\* cannot be read
ListingFails(t, n) ==
    IF isMultipathDevice(t, n) THEN ~t.holders[n].ok ELSE ~t.dir[n].ok

\* the dev file or the udev record of a listed partition of disk n cannot
\* be read
RecordFails(t, n) ==
    IF isMultipathDevice(t, n)
    THEN \E j \in 1..Len(t.holders[n].files) :
             udevInfoPartition(t, <<t.holders[n].files[j]>>).err
    ELSE \E j \in 1..Len(Children(t, n)) :
             udevInfoPartition(t, <<n, Children(t, n)[j]>>).err

NamesOf_Disks(ds) == [i \in 1..Len(ds) |-> ds[i].Name]

\* C34 as stated: any read failure below a disk (its directory, its holders
\* directory, the dev file or the udev record of one partition) leaves the
\* disk with an empty partition list
C34_AnyReadFailureEmptiesTheList ==
    (enumPc = "done" /\ ~enumerated.isNil) =>
        \A i \in 1..Len(enumerated.disks) :
            LET n == enumerated.disks[i].Name
            IN  (ListingFails(tree, n) \/ RecordFails(tree, n))
                    => enumerated.disks[i].Partitions = << >>

\* C34: a disk whose directory (holders directory) cannot be read has an
\* empty partition list; a partition of a regular disk whose dev file or
\* udev record cannot be read stays in the list, in its place, with
\* unknown UUID and label; every entry of a regular tree that is not an
\* unused loop device is still enumerated
C34_FailedPartitionStaysListed ==
    (enumPc = "done" /\ ~enumerated.isNil) =>
        /\ RegularOnly(tree) => NamesOf_Disks(enumerated.disks) = Kept(tree)
        /\ \A i \in 1..Len(enumerated.disks) :
              LET n == enumerated.disks[i].Name
                  ps == enumerated.disks[i].Partitions
                  cs == Children(tree, n)
              IN  /\ ListingFails(tree, n) => ps = << >>
                  /\ (~isMultipathDevice(tree, n) /\ ~ListingFails(tree, n)) =>
                        /\ Len(ps) = Len(cs)
                        /\ \A j \in 1..Len(cs) :
                              /\ ps[j].Name = cs[j]
                              /\ udevInfoPartition(tree, <<n, cs[j]>>).err
                                    => (ps[j].UUID = UNKNOWN
                                        /\ ps[j].FilesystemLabel = UNKNOWN)

\* sda enumerated next to loop0 with two partitions, the record of the first
\* one unreadable
C34_Witness ==
    /\ enumPc = "done"
    /\ Len(enumerated.disks) = 2
    /\ enumerated.disks[2].Name = sda
    /\ RecordFails(tree, sda)
    /\ Len(enumerated.disks[2].Partitions) = 2
    /\ enumerated.disks[2].Partitions[1].UUID = UNKNOWN
    /\ enumerated.disks[2].Partitions[2].UUID = PartUUIDs[2]


\* the config the two layouts of TPMFields stand for
TPMFieldsConfig == KcryptConfig("", FALSE, "", "0x1600000", "0x1600001", "/dev/tpmrm0")

\* C35: the TPM fields nv_index, c_index and tpm_device are read from both
\* layouts, directly under kcrypt and inside kcrypt.challenger, and either
\* layout gives the same KcryptConfig
C35_BothLayoutsSameConfig ==
    (/\ exPc \in {"select", "done"}
     /\ cmdline = << >>
     /\ fileValues \in {<<TopLevelLayout>>, <<NestedLayout>>}) =>
        extracted = TPMFieldsConfig


(***************************************************************************)
(* The process-wide plugin bus (kcrypt/bus/bus.go) and the bus of          *)
(* bus/manager.go.  A *Bus is an entry of `buses`; its pluggable.Manager   *)
(* holds the plugins that Autoload found and the response handlers.        *)
(***************************************************************************)
MaxBusOps == 5

Plugins == {"kcrypt-discovery-challenger", "kcrypt-discovery-other"}

\* a response handler: who registered it, and after how many calls of Reload
Handler(owner, epoch) == [owner |-> owner, epoch |-> epoch]

\* NewBus(): a manager without plugins and handlers, registered false
NewBus(kind) ==
    [kind |-> kind, registered |-> FALSE, loads |-> 0, plugins |-> {}, handlers |-> << >>]

\* b.Autoload(prefix, paths...).Register()
LoadProviders(b, dir) == [b EXCEPT !.loads = @ + 1, !.plugins = dir]

\* b.Response(e, handler)
Response(b, h) == [b EXCEPT !.handlers = Append(@, h)]

\* Bus.Initialize: nothing on a registered bus; else the providers are
\* loaded, the bus of kcrypt/bus registers its handler for the one event it
\* has, and registered is set
Initialize(b, dir, epoch) ==
    IF b.registered THEN b
    ELSE LET loaded == LoadProviders(b, dir)
             handled == IF b.kind = "kcrypt"
                        THEN Response(loaded, Handler("Initialize", epoch))
                        ELSE loaded
         IN  [handled EXCEPT !.registered = TRUE]

\* variant: the new bus takes over the handlers of the bus it replaces
Reload_KeepsHandlers(bs, dir, epoch) ==
    Append(bs, Initialize([NewBus("kcrypt") EXCEPT !.handlers = bs[Len(bs)].handlers],
                          dir, epoch))

\* Reload: Manager = NewBus(); Manager.Initialize().  The buses made so far
\* with the new one at the end
Reload(bs, dir, epoch) == Append(bs, Initialize(NewBus("kcrypt"), dir, epoch))

\* Manager.Publish: every plugin of the bus answers and every handler of the
\* bus is called with every answer
Publish(b) ==
    {[plugin |-> p, handler |-> b.handlers[k]] : p \in b.plugins, k \in 1..Len(b.handlers)}

InitBus ==
    /\ SelectorIdle /\ OpsIdle /\ GhwIdle /\ FindIdle /\ UaIdle
    /\ MergeIdle /\ ScanIdle /\ TpmIdle /\ ExIdle /\ LuksIdle /\ PassIdle /\ BusRestIdle
    /\ buses \in {<<NewBus(kind)>> : kind \in {"kcrypt", "agent"}}
    /\ Manager = 1
    /\ providerDir \in SUBSET Plugins
    /\ invoked = {}
    /\ busLast = ""
    /\ busReloads = 0
    /\ busOps = 0

NotBus == <<selVars, opsVars, ghwVars, findVars, uaVars, mergeVars, scanVars, tpmVars, exVars,
            luksVars, passVars, fmtVars, mntVars, pfVars, nmVars>>

BusOp(name) ==
    /\ busOps < MaxBusOps
    /\ busOps' = busOps + 1
    /\ busLast' = name

\* bus.Manager.Initialize()
BusInitialize ==
    /\ BusOp("Initialize")
    /\ buses' = [buses EXCEPT ![Manager] = Initialize(@, providerDir, busReloads)]
    /\ UNCHANGED <<Manager, providerDir, invoked, busReloads, NotBus>>

\* bus.Reload()
BusReload ==
    /\ BusOp("Reload")
    /\ buses[Manager].kind = "kcrypt"
    /\ busReloads' = busReloads + 1
    /\ buses' = Reload(buses, providerDir, busReloads')
    /\ Manager' = Len(buses')
    /\ UNCHANGED <<providerDir, invoked, NotBus>>

\* bus.Manager.Response(bus.EventDiscoveryPassword, func ...) of a caller
BusResponse ==
    /\ BusOp("Response")
    /\ buses' = [buses EXCEPT ![Manager] = Response(@, Handler("caller", busReloads))]
    /\ UNCHANGED <<Manager, providerDir, invoked, busReloads, NotBus>>

\* bus.Manager.Publish(bus.EventDiscoveryPassword, payload)
BusPublish ==
    /\ BusOp("Publish")
    /\ invoked' = Publish(buses[Manager])
    /\ UNCHANGED <<buses, Manager, providerDir, busReloads, NotBus>>

\* a plugin is installed below the extension paths, or removed
BusInstall ==
    /\ BusOp("Install")
    /\ \E p \in Plugins :
         providerDir' = IF p \in providerDir THEN providerDir \ {p} ELSE providerDir \cup {p}
    /\ UNCHANGED <<buses, Manager, invoked, busReloads, NotBus>>

NextBus == BusInitialize \/ BusReload \/ BusResponse \/ BusPublish \/ BusInstall

SpecBus == InitBus /\ [][NextBus]_vars


\* the calls of Autoload on the buses bs
RECURSIVE TotalLoads(_)
TotalLoads(bs) == IF bs = << >> THEN 0 ELSE Head(bs).loads + TotalLoads(Tail(bs))

\* C36: Initialize on an initialized bus changes neither the bus nor the
\* process-wide Manager; once providers have been loaded, they are loaded
\* again only by Reload, which makes a new initialized bus the process-wide
\* one and leaves the buses before it as they were; and a Publish invokes
\* only handlers registered since the last Reload
C36_InitializeOnceUntilReload ==
    [][/\ (busLast' = "Initialize" /\ buses[Manager].registered)
              => (buses' = buses /\ Manager' = Manager)
       /\ (TotalLoads(buses) > 0 /\ TotalLoads(buses') > TotalLoads(buses))
              => /\ busLast' = "Reload"
                 /\ Manager' = Len(buses) + 1
                 /\ buses'[Manager'].registered
                 /\ buses'[Manager'].loads = 1
                 /\ SubSeq(buses', 1, Len(buses)) = buses
       /\ busLast' = "Publish"
              => \A i \in invoked' : i.handler.epoch = busReloads']_vars

\* a Publish after a Reload, on a bus with plugins, while the bus before the
\* Reload was initialized and holds the handler of a caller
C36_Witness ==
    /\ busLast = "Publish"
    /\ busReloads = 1
    /\ Manager = 2
    /\ buses[1].registered
    /\ \E k \in 1..Len(buses[1].handlers) : buses[1].handlers[k].owner = "caller"
    /\ invoked # {}


(***************************************************************************)
(* parseFiles of the config collector (unnamed/part_004 289-332).          *)
(***************************************************************************)
MaxFiles == 2

\* sizes in bytes around 1 MiB and 2 MiB
FileSizes == {MiB, MiB + 1, 2 * MiB - 1, 2 * MiB}

FileExts == {".yaml", ".yml", ".txt"}

FileDescs == [size : FileSizes, ext : FileExts, readable : BOOLEAN, header : BOOLEAN]

\* the files f1, f2, ... with the descriptions ds
NamedFiles(ds) ==
    [i \in 1..Len(ds) |->
        [name |-> <<"f", DigitChars[i]>>, size |-> ds[i].size, ext |-> ds[i].ext,
         readable |-> ds[i].readable, header |-> ds[i].header]]

\* fileSize: 0 when the file cannot be opened; else bytes / 1024 / 1024 in
\* integers, cast to float64: whole MiB, and no fraction
fileSize(f) ==
    IF ~f.readable THEN [whole |-> 0, rest |-> 0]
    ELSE LET kilobytes == f.size \div 1024
             megabytes == kilobytes \div 1024
         IN  [whole |-> megabytes, rest |-> 0]

\* x > 1.0
MoreThanOne(x) == x.whole > 1 \/ (x.whole = 1 /\ x.rest > 0)

\* the body of the loop of parseFiles for one file: the Configs it appends
ParseFile(f) ==
    IF MoreThanOne(fileSize(f)) THEN << >>
    ELSE IF f.ext \notin {".yml", ".yaml"} THEN << >>
    ELSE IF ~f.readable THEN << >>
    ELSE IF ~f.header THEN << >>
    ELSE << [Sources |-> <<f.name>>] >>

RECURSIVE parseFiles(_)
parseFiles(files) ==
    IF files = << >> THEN << >>
    ELSE ParseFile(Head(files)) \o parseFiles(Tail(files))

InitFiles ==
    /\ SelectorIdle /\ OpsIdle /\ GhwIdle /\ FindIdle /\ UaIdle
    /\ MergeIdle /\ ScanIdle /\ TpmIdle /\ ExIdle /\ LuksIdle /\ PassIdle /\ PfRestIdle
    /\ pfFiles \in {NamedFiles(ds) : ds \in SeqsUpTo(FileDescs, MaxFiles)}
    /\ pfPc = "start"
    /\ pfResult = << >>

NotPf == <<selVars, opsVars, ghwVars, findVars, uaVars, mergeVars, scanVars, tpmVars, exVars,
           luksVars, passVars, fmtVars, mntVars, busVars, nmVars>>

PfParseFiles ==
    /\ pfPc = "start"
    /\ pfResult' = parseFiles(pfFiles)
    /\ pfPc' = "done"
    /\ UNCHANGED <<pfFiles, NotPf>>

NextFiles == PfParseFiles

SpecFiles == InitFiles /\ [][NextFiles]_vars

\* the file f is the source of one of the Configs
Parsed(f) == \E i \in 1..Len(pfResult) : pfResult[i].Sources = <<f.name>>

\* C37: a .yml or .yaml file is parsed only if its size is at most 1 MiB
\* (1,048,576 bytes); every larger file is skipped
C37_LargerThanOneMiBSkipped ==
    pfPc = "done" =>
        \A i \in 1..Len(pfFiles) : pfFiles[i].size > 1048576 => ~Parsed(pfFiles[i])


\* C38: the calls of getOrCreateLocalTPMPassphrase that the attempts of
\* Unlock make never replace or remove a passphrase the NV index holds,
\* whichever reads of the TPM fail
C38_UnlockKeepsStoredPassphrase ==
    [][\A r \in nvram : r \in nvram']_vars


(***************************************************************************)
(* The mapper names one Encrypt or one attempt of Unlock of a label uses   *)
(* (encryptor.go luksify and unlockPartition, lock.go luksifyWithPassphrase *)
(* and luksifyMeasurements, formatLuks), on hosts where blkid and the      *)
(* enumeration may name different devices for the label.                   *)
(***************************************************************************)
NmLabel == "COS_PERSISTENT"

NmPart(name) == [Name |-> name, FilesystemLabel |-> NmLabel, UUID |-> "uuid-b"]

\* the label on sdb1 only; on sda1 and on sdb1; on the multipath partition
\* dm-1, whose node is /dev/mapper/mpatha1
NmHosts ==
    {[disks |-> HostDisks, blkid |-> DevPath("sdb1"), mpath |-> FALSE],
     [disks |-> << <<NmPart("sda1")>>, <<NmPart("sdb1")>> >>, blkid |-> DevPath("sda1"),
      mpath |-> FALSE],
     [disks |-> << <<NmPart("sda1")>>, <<NmPart("sdb1")>> >>, blkid |-> DevPath("sdb1"),
      mpath |-> FALSE],
     [disks |-> << <<NmPart("dm-1")>> >>, blkid |-> DevPath("dm-1"), mpath |-> TRUE],
     [disks |-> << <<NmPart("dm-1")>> >>, blkid |-> MapperPathOf("mpatha1"), mpath |-> TRUE]}

Crypt(name) == [name |-> name, kind |-> "crypt"]

\* the nodes below /dev/mapper before the call: volumes that are open, and
\* the node of the multipath partition
NmMapperSets(h) ==
    {ms \cup (IF h.mpath THEN {[name |-> "mpatha1", kind |-> "mpath"]} ELSE {}) :
        ms \in SUBSET {Crypt("sda1"), Crypt("sdb1"), Crypt("dm-1")}}

NmNames(ms) == {m.name : m \in ms}

Used(step, name) == [step |-> step, name |-> name]

\* the name and mapper arguments of formatLuks: luksify of the remote KMS
\* strategy, and luksifyWithPassphrase and luksifyMeasurements
FormatArgs(strategy, i) ==
    [name |-> i.Partition.Name,
     mapper |-> IF strategy = RemoteKMS THEN MapperPath(i)
                ELSE MapperPathOf(i.Partition.Name)]

\* the name the volume is opened under
OpenName(c, i) ==
    IF c.op = "Encrypt" THEN FormatArgs(c.strategy, i).name ELSE i.PartitionName

InitNames ==
    /\ SelectorIdle /\ OpsIdle /\ GhwIdle /\ FindIdle /\ UaIdle
    /\ MergeIdle /\ ScanIdle /\ TpmIdle /\ ExIdle /\ LuksIdle /\ PassIdle /\ NmRestIdle
    /\ \E h \in NmHosts :
         /\ nmIn \in [op : {"Encrypt", "Unlock"}, strategy : Strategies, label : {NmLabel},
                      blk : {[out |-> h.blkid \o <<"\n">>, err |-> FALSE]},
                      scan : {[Disks |-> h.disks, err |-> FALSE]}]
         /\ nmMappers \in NmMapperSets(h)
    /\ nmInfo = NilInfo
    /\ nmOpened = ""
    /\ nmTrace = << >>
    /\ nmPc = "find"
    /\ nmRet = NoErr

NotNm == <<selVars, opsVars, ghwVars, findVars, uaVars, mergeVars, scanVars, tpmVars, exVars,
           luksVars, passVars, fmtVars, mntVars, busVars, pfVars>>

NmFail(err) == nmPc' = "done" /\ nmRet' = err

\* findPartitionByLabel, and findPartition of lock.go
NmFind ==
    /\ nmPc = "find"
    /\ LET r == IF nmIn.op = "Encrypt" /\ nmIn.strategy # RemoteKMS
                THEN findPartition(nmIn.label, nmIn.scan)
                ELSE findPartitionByLabel(nmIn.label, nmIn.blk, nmIn.scan)
       IN  /\ nmInfo' = r.info
           /\ IF r.err # NoErr THEN NmFail(r.err)
              ELSE nmRet' = nmRet /\ nmPc' = (IF nmIn.op = "Encrypt" THEN "open" ELSE "locked")
    /\ UNCHANGED <<nmIn, nmMappers, nmOpened, nmTrace, NotNm>>

\* if !info.Locked() { return nil }
NmLocked ==
    /\ nmPc = "locked"
    /\ nmTrace' = Append(nmTrace, Used("exists", Base(MapperPath(nmInfo))))
    /\ nmPc' = IF Locked(nmInfo, NmNames(nmMappers)) THEN "open" ELSE "done"
    /\ UNCHANGED <<nmIn, nmInfo, nmMappers, nmOpened, nmRet, NotNm>>

\* luksUnlock(device, name, pass): nil when /dev/mapper/<name> is there, else
\* cryptsetup open; systemd-cryptsetup attach <name> <device> in the unlock
\* of the PCR strategy
NmOpen ==
    /\ nmPc = "open"
    /\ LET name == OpenName(nmIn, nmInfo)
           attach == nmIn.op = "Unlock" /\ nmIn.strategy = TPMWithPCR
           next == IF nmIn.op = "Encrypt" THEN "wait" ELSE "done"
       IN  IF ~attach /\ name \in NmNames(nmMappers)
           THEN /\ nmTrace' = Append(nmTrace, Used("exists", name))
                /\ nmOpened' = name
                /\ nmPc' = next
                /\ UNCHANGED <<nmMappers, nmRet>>
           ELSE \E ok \in BOOLEAN :
                  /\ ok => name \notin NmNames(nmMappers)
                  /\ nmTrace' = (IF attach THEN nmTrace
                                 ELSE Append(nmTrace, Used("exists", name)))
                                \o <<Used("open", name)>>
                  /\ IF ok
                     THEN /\ nmMappers' = nmMappers \cup {Crypt(name)}
                          /\ nmOpened' = name
                          /\ nmPc' = next
                          /\ nmRet' = nmRet
                     ELSE /\ NmFail(NewErr("unlock"))
                          /\ UNCHANGED <<nmMappers, nmOpened>>
    /\ UNCHANGED <<nmIn, nmInfo, NotNm>>

\* a step of formatLuks on `mapper`: waitDevice, mkfs.ext4, cryptsetup
\* refresh; cryptsetup can only refresh a volume that is open
NmStep(step, msg, next) ==
    /\ nmPc = step
    /\ LET mapper == Base(FormatArgs(nmIn.strategy, nmInfo).mapper)
       IN  /\ nmTrace' = Append(nmTrace, Used(step, mapper))
           /\ \E ok \in BOOLEAN :
                /\ (ok /\ step = "refresh") => Crypt(mapper) \in nmMappers
                /\ (step = "wait") => (ok <=> mapper \in NmNames(nmMappers))
                /\ IF ok THEN nmPc' = next /\ nmRet' = nmRet
                   ELSE NmFail(Errorf(msg, << >>, NewErr("exit status 1")))
    /\ UNCHANGED <<nmIn, nmInfo, nmMappers, nmOpened, NotNm>>

NmWait == NmStep("wait", "waitdevice err", "mkfs")
NmMkfs == NmStep("mkfs", "mkfs err", "refresh")
NmRefresh == NmStep("refresh", "refresh err", "close")

\* cryptsetup close <mapper>, and the return of formatLuks
NmClose ==
    /\ nmPc = "close"
    /\ LET mapper == Base(FormatArgs(nmIn.strategy, nmInfo).mapper)
       IN  /\ nmTrace' = Append(nmTrace, Used("close", mapper))
           /\ \E ok \in BOOLEAN :
                /\ ok => Crypt(mapper) \in nmMappers
                /\ IF ok
                   THEN /\ nmMappers' = nmMappers \ {Crypt(mapper)}
                        /\ nmRet' = nmRet
                        /\ nmPc' = IF nmIn.strategy = TPMWithPCR THEN "wipe" ELSE "done"
                   ELSE /\ NmFail(Errorf("lock err", << >>, NewErr("exit status 1")))
                        /\ UNCHANGED nmMappers
    /\ UNCHANGED <<nmIn, nmInfo, nmOpened, NotNm>>

\* systemd-cryptenroll --wipe-slot=password <device> of luksifyMeasurements
NmWipe ==
    /\ nmPc = "wipe"
    /\ \E ok \in BOOLEAN :
         IF ok THEN nmPc' = "done" /\ nmRet' = nmRet ELSE NmFail(NewErr("exit status 1"))
    /\ UNCHANGED <<nmIn, nmInfo, nmMappers, nmOpened, nmTrace, NotNm>>

NextNames ==
    NmFind \/ NmLocked \/ NmOpen \/ NmWait \/ NmMkfs \/ NmRefresh \/ NmClose \/ NmWipe

SpecNames == InitNames /\ [][NextNames]_vars

\* C39: within one encrypt or unlock of a label every step uses one mapper
\* name: the name the volume is opened under is the name of the
\* /dev/mapper path that is checked for existence, waited on, formatted
\* and closed
C39_OneMapperName ==
    \A i, j \in 1..Len(nmTrace) : nmTrace[i].name = nmTrace[j].name

\* C40: when Encrypt returns success the mapper the volume was opened under
\* to format it is closed again: /dev/mapper/<name> is absent
C40_MapperClosedAfterEncrypt ==
    (nmPc = "done" /\ nmIn.op = "Encrypt" /\ nmRet = NoErr) =>
        nmOpened \notin NmNames(nmMappers)

====
